---- MODULE Spec2Model ----
(***************************************************************************)
(* Record store (src/database.py, class JSONDatabase) and the booking and  *)
(* appointment-lifecycle tools built on it (src/main.py).                  *)
(*                                                                         *)
(* Representation.                                                         *)
(*   - Timestamps are whole seconds since an arbitrary epoch.  The code    *)
(*     stores datetime.isoformat() strings and reads them back with        *)
(*     datetime.fromisoformat(); only differences and comparisons of the   *)
(*     decoded values are used, so a timestamp is kept as its number of    *)
(*     seconds.                                                            *)
(*   - A Python string is a sequence of tokens (characters for symptom and *)
(*     specialization text, words and separators for medication text), so  *)
(*     that strip(), lower(), concatenation, join and "is a prefix of" are *)
(*     computed and not assumed.                                           *)
(*   - An Optional value is None == <<>> or Some(x) == <<x>>.              *)
(*   - self.data["patients"] and self.data["doctors"] are dicts keyed by   *)
(*     str(id); they are kept as sequences in insertion order (the order   *)
(*     in which dict.values() iterates), every record carrying its id.     *)
(***************************************************************************)
EXTENDS Integers, Sequences, FiniteSets, TLC

(***************************************************************************)
(* Bounds of the model.                                                    *)
(***************************************************************************)
MaxTicks == 1           \* number of times the clock advances
MaxAppointments == 2    \* number of appointments ever created
MaxVisitRecords == 1    \* number of visit records ever created
MaxMedications == 1     \* length of a parsed medication list
MaxThreads == 2         \* number of threads calling into the store

(***************************************************************************)
(* Windows of book_appointment_with_doctor, in seconds.                    *)
(***************************************************************************)
LookaheadSeconds == 604800      \* 7 days, duplicate-booking window
SymptomWindowSeconds == 86400   \* 24 hours, duplicate-symptom window
CooldownSeconds == 600          \* 10 minutes, rate limit
ConflictSeconds == 3600         \* 1 hour, doctor-conflict window
RaceSeconds == 60               \* 1 minute, final re-check
HorizonSeconds == 5184000       \* timedelta(days=60)

(***************************************************************************)
(* Input domains.                                                          *)
(***************************************************************************)
PatientEmails == {"p1@x", "p2@x"}
DoctorEmails == {"d1@x", "d2@x"}
PatientNames == {"Pat"}
\* doctor names in lexicographic order
NameOrder == <<"Adams", "Baker">>
DoctorNames == {NameOrder[i] : i \in 1..Len(NameOrder)}
DoctorNameOf(e) == IF e = "d1@x" THEN "Baker" ELSE "Adams"

\* symptom text: "A " and "a" are equal after strip().lower(), "b" differs
SymptomTexts == {<<"A", " ">>, <<"a">>, <<"b">>}

GeneralMedicine == <<"G", "m">>
Cardiology == <<"C", "a">>
Specializations == {Cardiology, GeneralMedicine}

\* steps by which the clock advances
TickSteps == {1800, 3660, 86400}
\* requested appointment times, relative to the time of the request: the
\* ones the time checks accept (1 hour, 8 days ahead) and the ones they
\* refuse (now, 60 days 1 minute ahead)
AcceptedOffsets == {3600, 691200}
RefusedOffsets == {0, 5184060}
BookOffsets == AcceptedOffsets \cup RefusedOffsets
\* the event id returned by the calendar call (when the call fails the id is
\* None and the booking goes on in the same way: main.py 474-476)
CalendarOutcomes == {<<"evt">>}

None == <<>>
Some(x) == <<x>>

Min(S) == CHOOSE x \in S : \A y \in S : x <= y

(***************************************************************************)
(* String helpers.                                                         *)
(***************************************************************************)
IsSpace(c) == c = " "

LowerChar(c) ==
  CASE c = "A" -> "a"
    [] c = "B" -> "b"
    [] c = "C" -> "c"
    [] c = "G" -> "g"
    [] c = "Next" -> "next"
    [] c = "Friday" -> "friday"
    [] c = "Tomorrow" -> "tomorrow"
    [] c = "2:30 PM" -> "2:30 pm"
    [] OTHER -> c

\* str.lower()
Lower(s) == [i \in 1..Len(s) |-> LowerChar(s[i])]

\* str.strip()
Strip(s) ==
  LET keep == {i \in 1..Len(s) : ~IsSpace(s[i])}
  IN IF keep = {} THEN <<>>
     ELSE LET lo == Min(keep)
              hi == CHOOSE x \in keep : \A y \in keep : y <= x
          IN SubSeq(s, lo, hi)

\* a in b  (substring test)
IsInfix(a, b) ==
  \E k \in 0..(Len(b) - Len(a)) : SubSeq(b, k + 1, k + Len(a)) = a

IsPrefix(a, b) == Len(a) <= Len(b) /\ SubSeq(b, 1, Len(a)) = a

\* Python truthiness of an Optional string: None and "" are falsy
Truthy(o) == o # None /\ o[1] # <<>>

\* a or b
OrElse(a, b) == IF Truthy(a) THEN a ELSE b

\* sep.join(parts)
RECURSIVE Join(_, _)
Join(sep, parts) ==
  IF parts = <<>> THEN <<>>
  ELSE IF Len(parts) = 1 THEN parts[1]
  ELSE parts[1] \o sep \o Join(sep, Tail(parts))

\* the tokens of a field interpolated into a string ("" contributes nothing)
Tok(s) == IF s = "" THEN <<>> ELSE <<s>>

VARIABLES
  data,     \* JSONDatabase.data, the in-memory document
  file,     \* the persisted document (medai_data.json); None while absent
  now,      \* datetime.now()
  ticks,    \* number of clock advances so far
  issued,   \* history: <<id, patient_email>> of every create_appointment return
  threads   \* the calls in progress: per thread, its position and its locals

vars == <<data, file, now, ticks, issued, threads>>

(***************************************************************************)
(* JSONDatabase.load_data on an absent file: the empty default structure.  *)
(***************************************************************************)
EmptyData ==
  [patients |-> <<>>,
   doctors |-> <<>>,
   appointments |-> <<>>,
   post_visit_records |-> <<>>,
   next_patient_id |-> 1,
   next_doctor_id |-> 1,
   next_appointment_id |-> 1,
   next_visit_record_id |-> 1]

(***************************************************************************)
(* The JSON text of the file, as the tree of values that json.dump writes  *)
(* and json.load reads: null, true/false, numbers, strings, arrays and     *)
(* objects (members in the order written).  Unparseable is any text that   *)
(* json.load rejects.                                                      *)
(***************************************************************************)
JNull == [json |-> "null"]
JBool(b) == [json |-> "bool", v |-> b]
JNumber(n) == [json |-> "number", v |-> n]
JString(s) == [json |-> "string", v |-> s]
JArray(items) == [json |-> "array", v |-> items]
JObject(members) == [json |-> "object", v |-> members]
Unparseable == [json |-> "invalid"]
Member(key, value) == [key |-> key, value |-> value]

\* the keys of an object, and the value json.load keeps for a key (the last)
ObjectKeys(j) == {j.v[k].key : k \in 1..Len(j.v)}
HasKey(j, key) == key \in ObjectKeys(j)
ObjectGet(j, key) ==
  LET last == CHOOSE k \in 1..Len(j.v) :
                /\ j.v[k].key = key
                /\ \A m \in 1..Len(j.v) : j.v[m].key = key => m <= k
  IN j.v[last].value
IsArrayOfObjects(j) ==
  j.json = "array" /\ \A k \in 1..Len(j.v) : j.v[k].json = "object"

\* The Python type of the value stored under each key of a record:
\*   "int"    an int                      "str"  a str (timestamps are stored
\*   "bool"   a bool                             as isoformat() strings)
\*   "opt"    None or a str               "optint"  None or an int
OptKeys ==
  {"medical_history", "current_medication", "current_symptoms", "days_available",
   "google_event_id", "completed_at", "instructions", "next_appointment"}
IntKeys == {"id", "patient_id", "doctor_id"}
FieldKind(key) ==
  IF key \in IntKeys THEN "int"
  ELSE IF key \in OptKeys THEN "opt"
  ELSE IF key = "appointment_id" THEN "optint"
  ELSE IF key = "appointment_completed" THEN "bool"
  ELSE "str"

\* json.dump of a scalar: None -> null, bool -> true/false, int -> number,
\* str -> string
DumpField_BlankNull(kind, v) ==
  CASE kind = "int" -> JNumber(v)
    [] kind = "bool" -> JBool(v)
    [] kind = "opt" -> IF v = None THEN JString(<<>>) ELSE JString(v[1])
    [] kind = "optint" -> IF v = None THEN JNull ELSE JNumber(v[1])
    [] OTHER -> JString(v)

DumpField(kind, v) ==
  CASE kind = "int" -> JNumber(v)
    [] kind = "bool" -> JBool(v)
    [] kind = "opt" -> IF v = None THEN JNull ELSE JString(v[1])
    [] kind = "optint" -> IF v = None THEN JNull ELSE JNumber(v[1])
    [] OTHER -> JString(v)

\* json.load of a scalar: null -> None, true/false -> bool, number -> int,
\* string -> str
LoadField(kind, j) ==
  CASE kind = "opt" -> IF j.json = "null" THEN None ELSE Some(j.v)
    [] kind = "optint" -> IF j.json = "null" THEN None ELSE Some(j.v)
    [] OTHER -> j.v

\* the order in which the keys of a dict are written (its insertion order)
FieldOrder ==
  <<"id", "patient_id", "patient_email", "patient_name", "doctor_id", "doctor_email",
    "doctor_name", "name", "email", "specialization", "days_available",
    "medical_history", "current_medication", "current_symptoms", "symptoms",
    "appointment_date", "status", "appointment_completed", "google_event_id",
    "appointment_id", "visit_date", "visit_summary", "medications", "instructions",
    "next_appointment", "created_at", "completed_at", "dosage", "frequency", "duration">>
TopOrder ==
  <<"patients", "doctors", "appointments", "post_visit_records", "next_patient_id",
    "next_doctor_id", "next_appointment_id", "next_visit_record_id">>
KeysInOrder(order, r) ==
  LET Present(key) == key \in DOMAIN r
  IN SelectSeq(order, Present)

\* a medication dict: every value is a str
DumpMedication(med) ==
  LET keys == KeysInOrder(FieldOrder, med)
  IN JObject([k \in 1..Len(keys) |-> Member(keys[k], JString(med[keys[k]]))])
LoadMedication(j) == [key \in ObjectKeys(j) |-> ObjectGet(j, key).v]

\* a patient, doctor, appointment or visit record
DumpRecord(r) ==
  LET keys == KeysInOrder(FieldOrder, r)
      Value(key) ==
        IF key = "medications"
        THEN JArray([m \in 1..Len(r[key]) |-> DumpMedication(r[key][m])])
        ELSE DumpField(FieldKind(key), r[key])
  IN JObject([k \in 1..Len(keys) |-> Member(keys[k], Value(keys[k]))])
LoadRecord(j) ==
  [key \in ObjectKeys(j) |->
     IF key = "medications"
     THEN LET meds == ObjectGet(j, key).v
          IN [m \in 1..Len(meds) |-> LoadMedication(meds[m])]
     ELSE LoadField(FieldKind(key), ObjectGet(j, key))]

\* self.data["patients"] / ["doctors"]: a dict keyed by str(id)
DumpTable(seq) ==
  JObject([k \in 1..Len(seq) |-> Member(ToString(seq[k].id), DumpRecord(seq[k]))])
LoadTable(j) == [k \in 1..Len(j.v) |-> LoadRecord(j.v[k].value)]

\* self.data["appointments"] / ["post_visit_records"]: a list of dicts
DumpList(seq) == JArray([k \in 1..Len(seq) |-> DumpRecord(seq[k])])
LoadList(j) == [k \in 1..Len(j.v) |-> LoadRecord(j.v[k])]

\* json.dump(self.data, f, indent=2, default=str)
JsonDump(d) ==
  LET keys == KeysInOrder(TopOrder, d)
      Value(key) ==
        IF key \in {"patients", "doctors"} THEN DumpTable(d[key])
        ELSE IF key \in {"appointments", "post_visit_records"} THEN DumpList(d[key])
        ELSE JNumber(d[key])
  IN JObject([k \in 1..Len(keys) |-> Member(keys[k], Value(keys[k]))])

\* json.load(f) of an object
JsonLoad(j) ==
  [key \in ObjectKeys(j) |->
     IF key \in {"patients", "doctors"} THEN LoadTable(ObjectGet(j, key))
     ELSE IF key \in {"appointments", "post_visit_records"} THEN LoadList(ObjectGet(j, key))
     ELSE ObjectGet(j, key).v]

\* a store: the in-memory document and the file it is saved to
Store(d, f) == [data |-> d, file |-> f]
St(r) == [data |-> r.data, file |-> r.file]

\* The content of the file is JSON text.  Text that save_data wrote is kept
\* as Written(d), d being the value json.dump serialized: the text itself,
\* JsonDump(d), is computed when the file is read.  Any other content is
\* kept as the text it is.
Written(d) == [written |-> d]
TextOf(content) ==
  IF "written" \in DOMAIN content THEN JsonDump(content.written) ELSE content

\* JSONDatabase.save_data: json.dump(self.data) into the file
SaveData(st) == [st EXCEPT !.file = Some(Written(st.data))]

\* a variant of load_data that starts from the empty structure whenever the
\* document lacks one of the newer keys
LoadData_Strict(f) ==
  IF f = None THEN EmptyData
  ELSE IF TextOf(f[1]).json # "object" THEN EmptyData
  ELSE IF ~(DOMAIN EmptyData \subseteq ObjectKeys(TextOf(f[1]))) THEN EmptyData
  ELSE JsonLoad(TextOf(f[1]))

(***************************************************************************)
(* JSONDatabase.load_data.  The empty structure when the file is absent or *)
(* when anything raises while it is read: json.load on text that is not    *)
(* JSON, the key tests and assignments of lines 18-27 on a document that   *)
(* is not an object, the loop of lines 31-33 on an "appointments" value    *)
(* that is not an array of objects.  Otherwise the document of the file    *)
(* with the missing counters, the missing post_visit_records table and the *)
(* missing appointment_completed flags filled in.                          *)
(***************************************************************************)
LoadData(f) ==
  IF f = None THEN EmptyData
  ELSE IF TextOf(f[1]).json # "object" THEN EmptyData
  ELSE IF /\ HasKey(TextOf(f[1]), "appointments")
          /\ ~IsArrayOfObjects(ObjectGet(TextOf(f[1]), "appointments"))
  THEN EmptyData
  ELSE LET doc == JsonLoad(TextOf(f[1]))
           Filled(key) == IF key \in DOMAIN doc THEN doc[key] ELSE EmptyData[key]
           Migrated(a) ==
             IF "appointment_completed" \in DOMAIN a THEN a
             ELSE a @@ [appointment_completed |-> FALSE]
           Keys == DOMAIN doc \cup {"next_patient_id", "next_doctor_id",
                                    "next_appointment_id", "post_visit_records",
                                    "next_visit_record_id"}
           full == [key \in Keys |-> Filled(key)]
       IN IF "appointments" \in DOMAIN doc
          THEN [full EXCEPT !.appointments = [k \in 1..Len(@) |-> Migrated(@[k])]]
          ELSE full


(***************************************************************************)
(* Lookups (read only).                                                    *)
(***************************************************************************)
\* index of the first record of seq with this email, 0 when there is none
IndexByEmail(seq, email) ==
  LET I == {i \in 1..Len(seq) : seq[i].email = email}
  IN IF I = {} THEN 0 ELSE Min(I)

\* JSONDatabase.get_patient_by_email: index into data.patients, 0 for None
GetPatientByEmail(d, email) == IndexByEmail(d.patients, email)

\* JSONDatabase.get_doctor_by_email: index into data.doctors, 0 for None
GetDoctorByEmail(d, email) == IndexByEmail(d.doctors, email)

\* JSONDatabase.get_appointment_by_id: index of the first appointment with
\* this id, 0 for None
GetAppointmentById(d, id) ==
  LET I == {i \in 1..Len(d.appointments) : d.appointments[i].id = id}
  IN IF I = {} THEN 0 ELSE Min(I)

\* seq without its i-th element (del seq[i])
RemoveAt(seq, i) == SubSeq(seq, 1, i - 1) \o SubSeq(seq, i + 1, Len(seq))

\* a variant of add_patient that stores a new record without looking for an
\* existing one
AddPatient_AlwaysNew(st, t, email, name, medical_history, current_medication, current_symptoms) ==
  LET d == st.data
      patient_id == d.next_patient_id
      patient_data ==
        [id |-> patient_id, name |-> name, email |-> email,
         medical_history |-> medical_history,
         current_medication |-> current_medication,
         current_symptoms |-> current_symptoms,
         created_at |-> t]
      st1 == [st EXCEPT !.data.patients = Append(@, patient_data),
                        !.data.next_patient_id = @ + 1]
  IN SaveData(st1) @@ [ret |-> patient_id]

\* a variant of add_patient that stores the arguments over an existing
\* record without merging
AddPatient_Overwrites(st, t, email, name, medical_history, current_medication, current_symptoms) ==
  LET d == st.data
      i == GetPatientByEmail(d, email)
  IN IF i # 0
     THEN LET existing == d.patients[i]
              patient_data ==
                [id |-> existing.id,
                 name |-> name,
                 email |-> email,
                 medical_history |-> medical_history,
                 current_medication |-> current_medication,
                 current_symptoms |-> current_symptoms,
                 created_at |-> existing.created_at]
              st1 == [st EXCEPT !.data.patients[i] = patient_data]
          IN SaveData(st1) @@ [ret |-> existing.id]
     ELSE LET patient_id == d.next_patient_id
              patient_data ==
                [id |-> patient_id,
                 name |-> name,
                 email |-> email,
                 medical_history |-> medical_history,
                 current_medication |-> current_medication,
                 current_symptoms |-> current_symptoms,
                 created_at |-> t]
              st1 == [st EXCEPT !.data.patients = Append(@, patient_data),
                                !.data.next_patient_id = @ + 1]
          IN SaveData(st1) @@ [ret |-> patient_id]

(***************************************************************************)
(* JSONDatabase.add_patient.  Returns the store and the patient id.        *)
(***************************************************************************)
AddPatient(st, t, email, name, medical_history, current_medication, current_symptoms) ==
  LET d == st.data
      i == GetPatientByEmail(d, email)
  IN IF i # 0
     THEN LET existing == d.patients[i]
              patient_data ==
                [id |-> existing.id,
                 name |-> name,
                 email |-> email,
                 medical_history |-> OrElse(medical_history, existing.medical_history),
                 current_medication |-> OrElse(current_medication, existing.current_medication),
                 current_symptoms |-> OrElse(current_symptoms, existing.current_symptoms),
                 created_at |-> existing.created_at]
              st1 == [st EXCEPT !.data.patients[i] = patient_data]
          IN SaveData(st1) @@ [ret |-> existing.id]
     ELSE LET patient_id == d.next_patient_id
              patient_data ==
                [id |-> patient_id,
                 name |-> name,
                 email |-> email,
                 medical_history |-> medical_history,
                 current_medication |-> current_medication,
                 current_symptoms |-> current_symptoms,
                 created_at |-> t]
              st1 == [st EXCEPT !.data.patients = Append(@, patient_data),
                                !.data.next_patient_id = @ + 1]
          IN SaveData(st1) @@ [ret |-> patient_id]

(***************************************************************************)
(* JSONDatabase.add_doctor.  Returns the store and the doctor id.          *)
(***************************************************************************)
AddDoctor(st, t, email, name, specialization, days_available) ==
  LET d == st.data
      i == GetDoctorByEmail(d, email)
  IN IF i # 0
     THEN LET existing == d.doctors[i]
              doctor_data ==
                [id |-> existing.id,
                 name |-> name,
                 email |-> email,
                 specialization |-> specialization,
                 days_available |-> OrElse(days_available, existing.days_available),
                 created_at |-> existing.created_at]
              st1 == [st EXCEPT !.data.doctors[i] = doctor_data]
          IN SaveData(st1) @@ [ret |-> existing.id]
     ELSE LET doctor_id == d.next_doctor_id
              doctor_data ==
                [id |-> doctor_id,
                 name |-> name,
                 email |-> email,
                 specialization |-> specialization,
                 days_available |-> days_available,
                 created_at |-> t]
              st1 == [st EXCEPT !.data.doctors = Append(@, doctor_data),
                                !.data.next_doctor_id = @ + 1]
          IN SaveData(st1) @@ [ret |-> doctor_id]

(***************************************************************************)
(* JSONDatabase.get_doctors_by_specialization: the doctors whose           *)
(* specialization contains the requested text (case-insensitively) or is   *)
(* exactly "General Medicine", sorted (stably) by the key                  *)
(* (specialization != requested, name).                                    *)
(***************************************************************************)
NameRank(n) == CHOOSE i \in 1..Len(NameOrder) : NameOrder[i] = n

\* a variant of the sort key that leaves the specialization out: (name)
DoctorKeyLess_NameOnly(a, b, specialization) ==
  NameRank(a.name) < NameRank(b.name)

\* key(a) < key(b) for the sort key (x["specialization"] != specialization, x["name"])
DoctorKeyLess(a, b, specialization) ==
  LET ka == IF a.specialization # specialization THEN 1 ELSE 0
      kb == IF b.specialization # specialization THEN 1 ELSE 0
  IN \/ ka < kb
     \/ ka = kb /\ NameRank(a.name) < NameRank(b.name)

DoctorMatches(doctor, specialization) ==
  \/ IsInfix(Lower(specialization), Lower(doctor.specialization))
  \/ doctor.specialization = GeneralMedicine

RECURSIVE StableSortDoctors(_, _)
StableSortDoctors(seq, specialization) ==
  IF seq = <<>> THEN <<>>
  ELSE LET i == Min({j \in 1..Len(seq) :
                       \A k \in 1..Len(seq) : ~DoctorKeyLess(seq[k], seq[j], specialization)})
       IN <<seq[i]>> \o StableSortDoctors(RemoveAt(seq, i), specialization)

GetDoctorsBySpecialization(d, specialization) ==
  LET Match(doctor) == DoctorMatches(doctor, specialization)
  IN StableSortDoctors(SelectSeq(d.doctors, Match), specialization)

(***************************************************************************)
(* JSONDatabase.create_appointment.  raised is TRUE for the ValueError of  *)
(* an unknown patient or doctor; otherwise ret is the new appointment id.  *)
(***************************************************************************)
\* a variant of the appointment record that does not keep the calendar event
NewAppointment_DropsEvent(d, t, patient_email, doctor_email, symptoms, appointment_date, google_event_id) ==
  [id |-> d.next_appointment_id,
   patient_id |-> d.patients[GetPatientByEmail(d, patient_email)].id,
   patient_email |-> patient_email,
   doctor_id |-> d.doctors[GetDoctorByEmail(d, doctor_email)].id,
   doctor_email |-> doctor_email,
   symptoms |-> symptoms,
   appointment_date |-> appointment_date,
   status |-> "scheduled",
   appointment_completed |-> FALSE,
   google_event_id |-> None,
   created_at |-> t,
   completed_at |-> None]

NewAppointment(d, t, patient_email, doctor_email, symptoms, appointment_date, google_event_id) ==
  [id |-> d.next_appointment_id,
   patient_id |-> d.patients[GetPatientByEmail(d, patient_email)].id,
   patient_email |-> patient_email,
   doctor_id |-> d.doctors[GetDoctorByEmail(d, doctor_email)].id,
   doctor_email |-> doctor_email,
   symptoms |-> symptoms,
   appointment_date |-> appointment_date,
   status |-> "scheduled",
   appointment_completed |-> FALSE,
   google_event_id |-> google_event_id,
   created_at |-> t,
   completed_at |-> None]

\* a variant of create_appointment that takes the next id before it looks up
\* the patient and the doctor
CreateAppointment_CountsFirst(st, t, patient_email, doctor_email, symptoms, appointment_date, google_event_id) ==
  LET d == st.data
  IN IF GetPatientByEmail(d, patient_email) = 0 \/ GetDoctorByEmail(d, doctor_email) = 0
     THEN SaveData([st EXCEPT !.data.next_appointment_id = @ + 1])
            @@ [ret |-> 0, raised |-> TRUE]
     ELSE LET appointment_data ==
                NewAppointment(d, t, patient_email, doctor_email, symptoms,
                               appointment_date, google_event_id)
              st1 == [st EXCEPT !.data.appointments = Append(@, appointment_data),
                                !.data.next_appointment_id = @ + 1]
          IN SaveData(st1) @@ [ret |-> appointment_data.id, raised |-> FALSE]

CreateAppointment(st, t, patient_email, doctor_email, symptoms, appointment_date, google_event_id) ==
  LET d == st.data
  IN IF GetPatientByEmail(d, patient_email) = 0 \/ GetDoctorByEmail(d, doctor_email) = 0
     THEN st @@ [ret |-> 0, raised |-> TRUE]
     ELSE LET appointment_data ==
                NewAppointment(d, t, patient_email, doctor_email, symptoms,
                               appointment_date, google_event_id)
              st1 == [st EXCEPT !.data.appointments = Append(@, appointment_data),
                                !.data.next_appointment_id = @ + 1]
          IN SaveData(st1) @@ [ret |-> appointment_data.id, raised |-> FALSE]

\* a variant of delete_appointment that also drops the appointments stored
\* after the one it removes
DeleteAppointment_Tail(st, appointment_id) ==
  LET i == GetAppointmentById(st.data, appointment_id)
  IN IF i # 0
     THEN SaveData([st EXCEPT !.data.appointments = SubSeq(@, 1, i - 1)]) @@ [ret |-> TRUE]
     ELSE st @@ [ret |-> FALSE]

\* a variant of delete_appointment that hands the freed id back to the counter
DeleteAppointment_Renumber(st, appointment_id) ==
  LET i == GetAppointmentById(st.data, appointment_id)
  IN IF i # 0
     THEN SaveData([st EXCEPT !.data.appointments = RemoveAt(@, i),
                              !.data.next_appointment_id = Len(st.data.appointments)])
            @@ [ret |-> TRUE]
     ELSE st @@ [ret |-> FALSE]

(***************************************************************************)
(* JSONDatabase.delete_appointment.  ret is the boolean returned.          *)
(***************************************************************************)
DeleteAppointment(st, appointment_id) ==
  LET i == GetAppointmentById(st.data, appointment_id)
  IN IF i # 0
     THEN SaveData([st EXCEPT !.data.appointments = RemoveAt(@, i)]) @@ [ret |-> TRUE]
     ELSE st @@ [ret |-> FALSE]

(***************************************************************************)
(* JSONDatabase.update_appointment_completion_status.                      *)
(***************************************************************************)
UpdateAppointmentCompletionStatus(st, t, appointment_id, completed) ==
  LET i == GetAppointmentById(st.data, appointment_id)
  IN IF i # 0
     THEN LET a == st.data.appointments[i]
              a1 == [a EXCEPT !.appointment_completed = completed]
              a2 == IF completed
                    THEN [a1 EXCEPT !.status = "completed", !.completed_at = Some(t)]
                    ELSE a1
          IN SaveData([st EXCEPT !.data.appointments[i] = a2]) @@ [ret |-> TRUE]
     ELSE st @@ [ret |-> FALSE]

\* a variant of update_patient that returns without saving
UpdatePatient_Unsaved(st, patient_email, updated_data) ==
  LET i == GetPatientByEmail(st.data, patient_email)
  IN IF i # 0
     THEN LET patient == st.data.patients[i]
              merged == [k \in DOMAIN patient |->
                           IF k \in DOMAIN updated_data /\ k # "id"
                           THEN updated_data[k] ELSE patient[k]]
          IN [st EXCEPT !.data.patients[i] = merged] @@ [ret |-> None]
     ELSE st @@ [ret |-> None]

(***************************************************************************)
(* JSONDatabase.update_patient: merges updated_data (a record over some of *)
(* the patient's keys) into the patient, never the id.  Returns None.      *)
(***************************************************************************)
UpdatePatient(st, patient_email, updated_data) ==
  LET i == GetPatientByEmail(st.data, patient_email)
  IN IF i # 0
     THEN LET patient == st.data.patients[i]
              merged == [k \in DOMAIN patient |->
                           IF k \in DOMAIN updated_data /\ k # "id"
                           THEN updated_data[k] ELSE patient[k]]
          IN SaveData([st EXCEPT !.data.patients[i] = merged]) @@ [ret |-> None]
     ELSE st @@ [ret |-> None]

(***************************************************************************)
(* JSONDatabase.update_patient_symptoms / clear_patient_symptoms.          *)
(***************************************************************************)
UpdatePatientSymptoms(st, patient_email, current_symptoms) ==
  LET i == GetPatientByEmail(st.data, patient_email)
  IN IF i # 0
     THEN SaveData([st EXCEPT !.data.patients[i].current_symptoms = current_symptoms])
            @@ [ret |-> TRUE]
     ELSE st @@ [ret |-> FALSE]

ClearPatientSymptoms(st, patient_email) ==
  LET i == GetPatientByEmail(st.data, patient_email)
  IN IF i # 0
     THEN SaveData([st EXCEPT !.data.patients[i].current_symptoms = None])
            @@ [ret |-> TRUE]
     ELSE st @@ [ret |-> FALSE]

(***************************************************************************)
(* Medication text.                                                        *)
(***************************************************************************)
FallbackMedicationName == "Prescribed medication"

Medication(name, dosage, frequency, duration) ==
  [name |-> name, dosage |-> dosage, frequency |-> frequency,
   duration |-> duration, instructions |-> ""]

\* what parse_single_medication_segment extracts from a segment: the name
\* carries the dosage, the dosage and the frequency may be empty
RealMedications ==
  {Medication("Amoxicillin 500mg", "500mg", "twice daily", "7 days"),
   Medication("Ibuprofen", "", "", "")}

\* the lists of at most n medications with pairwise distinct names
DistinctNameLists(n) ==
  {l \in UNION {[1..k -> RealMedications] : k \in 0..n} :
     \A i, j \in 1..Len(l) : i # j => l[i].name # l[j].name}

\* parse_medications_intelligently: the lists it can return.  None or blank
\* text gives the empty list; text with recognisable medications gives them
\* with distinct names; any other text gives the single fallback entry.
ParsedMedicationLists ==
  DistinctNameLists(MaxMedications)
    \cup {<<Medication(FallbackMedicationName, "", "", "")>>}

\* f"{med.get('name', '')} - {med.get('dosage', '')} - {med.get('frequency', '')}"
RecordMedString(med) ==
  Tok(med.name) \o <<" - ">> \o Tok(med.dosage) \o <<" - ">> \o Tok(med.frequency)

\* the med_string of update_patient_current_medications
SummaryMedString(med) ==
  <<med.name>>
    \o (IF med.dosage # "" THEN <<" ", med.dosage>> ELSE <<>>)
    \o (IF med.frequency # "" THEN <<" (", med.frequency, ")">> ELSE <<>>)

\* a variant of add_post_visit_record that counts the record before it looks
\* up the patient and the doctor
AddPostVisitRecord_CountsFirst(st, t, patient_email, doctor_email, visit_summary, medications, instructions, next_appointment, appointment_id) ==
  LET d == st.data
      pi == GetPatientByEmail(d, patient_email)
      di == GetDoctorByEmail(d, doctor_email)
  IN IF pi = 0 \/ di = 0
     THEN [st EXCEPT !.data.next_visit_record_id = @ + 1] @@ [ret |-> 0]
     ELSE LET visit_record ==
                [id |-> d.next_visit_record_id,
                 patient_id |-> d.patients[pi].id,
                 patient_email |-> patient_email,
                 patient_name |-> d.patients[pi].name,
                 doctor_id |-> d.doctors[di].id,
                 doctor_email |-> doctor_email,
                 doctor_name |-> d.doctors[di].name,
                 appointment_id |-> appointment_id,
                 visit_date |-> t,
                 visit_summary |-> visit_summary,
                 medications |-> medications,
                 instructions |-> instructions,
                 next_appointment |-> next_appointment,
                 created_at |-> t]
              st1 == [st EXCEPT !.data.post_visit_records = Append(@, visit_record),
                                !.data.next_visit_record_id = @ + 1]
              st2 == IF medications # <<>>
                     THEN [st1 EXCEPT !.data.patients[pi].current_medication =
                             Some(Join(<<"; ">>, [k \in 1..Len(medications) |->
                                                   RecordMedString(medications[k])]))]
                     ELSE st1
          IN SaveData(st2) @@ [ret |-> visit_record.id]

(***************************************************************************)
(* JSONDatabase.add_post_visit_record.  ret is 0 for the None returned     *)
(* when the patient or the doctor does not resolve.                        *)
(***************************************************************************)
AddPostVisitRecord(st, t, patient_email, doctor_email, visit_summary, medications, instructions, next_appointment, appointment_id) ==
  LET d == st.data
      pi == GetPatientByEmail(d, patient_email)
      di == GetDoctorByEmail(d, doctor_email)
  IN IF pi = 0 \/ di = 0
     THEN st @@ [ret |-> 0]
     ELSE LET visit_record ==
                [id |-> d.next_visit_record_id,
                 patient_id |-> d.patients[pi].id,
                 patient_email |-> patient_email,
                 patient_name |-> d.patients[pi].name,
                 doctor_id |-> d.doctors[di].id,
                 doctor_email |-> doctor_email,
                 doctor_name |-> d.doctors[di].name,
                 appointment_id |-> appointment_id,
                 visit_date |-> t,
                 visit_summary |-> visit_summary,
                 medications |-> medications,
                 instructions |-> instructions,
                 next_appointment |-> next_appointment,
                 created_at |-> t]
              st1 == [st EXCEPT !.data.post_visit_records = Append(@, visit_record),
                                !.data.next_visit_record_id = @ + 1]
              st2 == IF medications # <<>>
                     THEN [st1 EXCEPT !.data.patients[pi].current_medication =
                             Some(Join(<<"; ">>, [k \in 1..Len(medications) |->
                                                   RecordMedString(medications[k])]))]
                     ELSE st1
          IN SaveData(st2) @@ [ret |-> visit_record.id]

(***************************************************************************)
(* update_patient_current_medications (main.py).  ret is its boolean.      *)
(***************************************************************************)
UpdatePatientCurrentMedications(st, t, patient_email, new_medications) ==
  LET i == GetPatientByEmail(st.data, patient_email)
  IN IF i = 0
     THEN st @@ [ret |-> FALSE]
     ELSE LET patient == st.data.patients[i]
              existing_medication ==
                IF Truthy(patient.current_medication)
                THEN patient.current_medication[1] ELSE <<>>
              Named(med) == med.name # "" /\ med.name # FallbackMedicationName
              named == SelectSeq(new_medications, Named)
              new_med_strings == [k \in 1..Len(named) |-> SummaryMedString(named[k])]
              new_med_text == Join(<<", ">>, new_med_strings)
              updated_medication ==
                IF existing_medication # <<>>
                THEN existing_medication \o <<", ">> \o new_med_text
                ELSE new_med_text
          IN IF new_med_strings # <<>>
             THEN St(AddPatient(st, t, patient_email, patient.name,
                                patient.medical_history, Some(updated_medication), None))
                    @@ [ret |-> TRUE]
             ELSE st @@ [ret |-> FALSE]

(***************************************************************************)
(* parse_natural_language_datetime (main.py).  A date is a day number, day *)
(* 0 being a Monday; a datetime is the day times 86400 plus the seconds    *)
(* into the day.  The date text is a sequence of words and spaces, the     *)
(* time text one token.                                                    *)
(***************************************************************************)
SecondsPerDay == 86400
DaysPerWeek == 7

\* datetime.date() and date.weekday() (Monday is 0); time 0 is the midnight
\* at which a Monday starts
DateOf(t) == t \div SecondsPerDay
Weekday(day) == day % DaysPerWeek

\* days_of_week: the weekday of a name is its position minus one
DayNames == <<"monday", "tuesday", "wednesday", "thursday", "friday", "saturday", "sunday">>
IsDayName(w) == \E k \in 1..Len(DayNames) : DayNames[k] = w
DaysOfWeek(w) == (CHOOSE k \in 1..Len(DayNames) : DayNames[k] = w) - 1

\* int(match.group(1)) for the numbers written in the date texts
NumberOf(w) == CASE w = "1" -> 1 [] w = "2" -> 2 [] w = "3" -> 3 [] OTHER -> 0
IsNumber(w) == w \in {"1", "2", "3"}

\* s.replace(old, '') for a two-token old: every occurrence is removed
RECURSIVE RemoveAll(_, _)
RemoveAll(s, old) ==
  IF Len(s) < Len(old) THEN s
  ELSE IF SubSeq(s, 1, Len(old)) = old THEN RemoveAll(SubSeq(s, Len(old) + 1, Len(s)), old)
  ELSE <<s[1]>> \o RemoveAll(Tail(s), old)

\* a variant of lines 64-67 that adds the week only when the day is past
NextWeekdayDate_SameDay(current_date, target_weekday) ==
  LET current_weekday == Weekday(DateOf(current_date))
      days_ahead == target_weekday - current_weekday
  IN DateOf(current_date + SecondsPerDay * (IF days_ahead < 0 THEN days_ahead + DaysPerWeek ELSE days_ahead))

\* lines 62-67: the date of "next <weekday>"
NextWeekdayDate(current_date, target_weekday) ==
  LET current_weekday == Weekday(DateOf(current_date))
      days_ahead == target_weekday - current_weekday
  IN DateOf(current_date + SecondsPerDay * (IF days_ahead <= 0 THEN days_ahead + DaysPerWeek ELSE days_ahead))

\* lines 42-89: the target date, None when the text is not understood.  The
\* last branch tries four strptime formats, which reject every text that is
\* not a calendar date written in digits.
ParseDate(date_input, current_date) ==
  LET d == Strip(Lower(date_input))
  IN IF d = <<"today">> THEN Some(DateOf(current_date))
     ELSE IF d = <<"tomorrow">> THEN Some(DateOf(current_date + SecondsPerDay))
     ELSE IF d = <<"day", " ", "after", " ", "tomorrow">>
     THEN Some(DateOf(current_date + 2 * SecondsPerDay))
     ELSE IF IsPrefix(<<"next", " ">>, d)
     THEN LET day_name == Strip(RemoveAll(d, <<"next", " ">>))
          IN IF Len(day_name) = 1 /\ IsDayName(day_name[1])
             THEN Some(NextWeekdayDate(current_date, DaysOfWeek(day_name[1])))
             ELSE None
     ELSE IF IsPrefix(<<"in", " ">>, d)
     THEN IF Len(d) >= 5 /\ IsNumber(d[3]) /\ d[4] = " " /\ d[5] \in {"day", "days", "week", "weeks"}
          THEN IF d[5] \in {"day", "days"}
               THEN Some(DateOf(current_date + NumberOf(d[3]) * SecondsPerDay))
               ELSE Some(DateOf(current_date + NumberOf(d[3]) * DaysPerWeek * SecondsPerDay))
          ELSE None
     ELSE None

\* parse_12_hour_time
Parse12HourTime(hour, minute, period) ==
  IF period = "pm" /\ hour # 12 THEN <<hour + 12, minute>>
  ELSE IF period = "am" /\ hour = 12 THEN <<0, minute>>
  ELSE <<hour, minute>>

\* the first pattern of lines 95-101 that matches a time text, with the
\* numbers it captures; "" when none matches
TimeMatch(time_text) ==
  CASE time_text = "2:30 pm" -> [pattern |-> "h:mm am/pm", hour |-> 2, minute |-> 30, period |-> "pm"]
    [] time_text = "12 am" -> [pattern |-> "h am/pm", hour |-> 12, minute |-> 0, period |-> "am"]
    [] time_text = "14:30" -> [pattern |-> "h:mm", hour |-> 14, minute |-> 30, period |-> ""]
    [] time_text = "25:00" -> [pattern |-> "h:mm", hour |-> 25, minute |-> 0, period |-> ""]
    [] time_text = "noon" -> [pattern |-> "noon", hour |-> 12, minute |-> 0, period |-> ""]
    [] time_text = "midnight" -> [pattern |-> "midnight", hour |-> 0, minute |-> 0, period |-> ""]
    [] OTHER -> [pattern |-> "", hour |-> 0, minute |-> 0, period |-> ""]

\* lines 92-115: the target time as <<hour, minute>>, None when the text is
\* not understood (no later pattern matches a text of TimeMatch whose numbers
\* are out of range)
ParseTime(time_input) ==
  LET m == TimeMatch(LowerChar(time_input))
      hm == IF m.pattern \in {"h:mm am/pm", "h am/pm"}
            THEN Parse12HourTime(m.hour, m.minute, m.period)
            ELSE <<m.hour, m.minute>>
  IN IF m.pattern = "" THEN None
     ELSE IF 0 <= hm[1] /\ hm[1] <= 23 /\ 0 <= hm[2] /\ hm[2] <= 59 THEN Some(hm)
     ELSE None

\* the whole function: success and the datetime
ParseNaturalLanguageDatetime(date_input, time_input, current_date) ==
  LET target_date == ParseDate(date_input, current_date)
      target_time == ParseTime(time_input)
  IN IF target_date = None THEN [ok |-> FALSE, time |-> 0, error |-> "date"]
     ELSE IF target_time = None THEN [ok |-> FALSE, time |-> 0, error |-> "time"]
     ELSE [ok |-> TRUE,
           time |-> target_date[1] * SecondsPerDay + target_time[1][1] * 3600 + target_time[1][2] * 60,
           error |-> ""]

(***************************************************************************)
(* book_appointment_with_doctor (main.py).                                 *)
(***************************************************************************)
\* parse_natural_language_datetime(preferred_date, preferred_time, now) as
\* seen by the booking: a failure, or a time at one of the offsets from now
ParseOutcomes(t) ==
  {[ok |-> FALSE, time |-> 0]} \cup {[ok |-> TRUE, time |-> t + off] : off \in BookOffsets}

Abs(x) == IF x < 0 THEN -x ELSE x

\* a variant of check 1 that counts every scheduled appointment of the
\* patient, whatever its time
PatientScheduledAppointments_AnyTime(appointments, t, patient_email) ==
  LET Test(apt) ==
        /\ apt.patient_email = patient_email
        /\ apt.status = "scheduled"
  IN SelectSeq(appointments, Test)

\* Check 1: the patient's scheduled appointments in the next 7 days
PatientScheduledAppointments(appointments, t, patient_email) ==
  LET Test(apt) ==
        /\ apt.patient_email = patient_email
        /\ apt.status = "scheduled"
        /\ apt.appointment_date - t > 0
        /\ apt.appointment_date - t < LookaheadSeconds
  IN SelectSeq(appointments, Test)

\* a variant of check 2 that compares the symptom texts as they are
RecentSimilarAppointments_Exact(appointments, t, patient_email, symptoms) ==
  LET Test(apt) ==
        /\ apt.patient_email = patient_email
        /\ apt.symptoms = symptoms
        /\ apt.status \in {"scheduled", "completed"}
        /\ t - apt.created_at < SymptomWindowSeconds
  IN SelectSeq(appointments, Test)

\* Check 2: the patient's appointments with the same symptoms created in
\* the last 24 hours
RecentSimilarAppointments(appointments, t, patient_email, symptoms) ==
  LET Test(apt) ==
        /\ apt.patient_email = patient_email
        /\ Lower(Strip(apt.symptoms)) = Lower(Strip(symptoms))
        /\ apt.status \in {"scheduled", "completed"}
        /\ t - apt.created_at < SymptomWindowSeconds
  IN SelectSeq(appointments, Test)

\* Check 3: the patient's appointments created in the last 10 minutes
VeryRecentAppointments(appointments, t, patient_email) ==
  LET Test(apt) ==
        /\ apt.patient_email = patient_email
        /\ t - apt.created_at < CooldownSeconds
  IN SelectSeq(appointments, Test)

\* a variant of the conflict search with a window of two hours
DoctorAppointmentsAtTime_TwoHours(appointments, doctor_email, appointment_time) ==
  LET Test(apt) ==
        /\ apt.doctor_email = doctor_email
        /\ apt.status = "scheduled"
        /\ Abs(apt.appointment_date - appointment_time) < 2 * ConflictSeconds
  IN SelectSeq(appointments, Test)

\* the selected doctor's scheduled appointments within 1 hour of the time
DoctorAppointmentsAtTime(appointments, doctor_email, appointment_time) ==
  LET Test(apt) ==
        /\ apt.doctor_email = doctor_email
        /\ apt.status = "scheduled"
        /\ Abs(apt.appointment_date - appointment_time) < ConflictSeconds
  IN SelectSeq(appointments, Test)

\* final check: the patient's scheduled appointments created in the last minute
FinalDuplicateCheck(appointments, t, patient_email) ==
  LET Test(apt) ==
        /\ apt.patient_email = patient_email
        /\ apt.status = "scheduled"
        /\ t - apt.created_at < RaceSeconds
  IN SelectSeq(appointments, Test)

\* the time checks of lines 371-377: "" when the time is acceptable
TimeRejection(t, appointment_datetime) ==
  IF appointment_datetime <= t THEN "InvalidTimePast"
  ELSE IF appointment_datetime > t + HorizonSeconds THEN "InvalidTimeTooFar"
  ELSE ""

\* the part of the booking after the three duplicate checks have passed
BookAfterChecks(st, t, patient_email, patient_name, symptoms, appointment_time, specialization, cal) ==
  LET st1 == St(AddPatient(st, t, patient_email, patient_name, None, None, None))
      doctors == GetDoctorsBySpecialization(st1.data, specialization)
  IN IF doctors = <<>>
     THEN st1 @@ [result |-> "NoDoctor", id |-> 0]
     ELSE LET selected_doctor == doctors[1]
              conflicts == DoctorAppointmentsAtTime(st1.data.appointments,
                                                    selected_doctor.email, appointment_time)
              final == FinalDuplicateCheck(st1.data.appointments, t, patient_email)
          IN IF conflicts # <<>>
             THEN st1 @@ [result |-> "DoctorConflict", id |-> conflicts[1].id]
             ELSE IF final # <<>>
             THEN st1 @@ [result |-> "RaceCondition", id |-> 0]
             ELSE LET c == CreateAppointment(st1, t, patient_email, selected_doctor.email,
                                             symptoms, appointment_time, cal)
                  IN IF c.raised
                     THEN St(c) @@ [result |-> "Error", id |-> 0]
                     ELSE St(c) @@ [result |-> "Booked", id |-> c.ret]

\* a variant of the tool that applies the rate limit before the two
\* duplicate checks
BookAppointmentWithDoctor_RateFirst(st, t, patient_email, patient_name, symptoms, parsed, specialization, cal) ==
  LET all_appointments == st.data.appointments
      dup == PatientScheduledAppointments(all_appointments, t, patient_email)
      similar == RecentSimilarAppointments(all_appointments, t, patient_email, symptoms)
      recent == VeryRecentAppointments(all_appointments, t, patient_email)
  IN IF ~parsed.ok
     THEN st @@ [result |-> "ParseError", id |-> 0]
     ELSE IF TimeRejection(t, parsed.time) # ""
     THEN st @@ [result |-> TimeRejection(t, parsed.time), id |-> 0]
     ELSE IF recent # <<>>
     THEN st @@ [result |-> "RateLimit", id |-> recent[1].id]
     ELSE IF dup # <<>>
     THEN st @@ [result |-> "DuplicateBooking", id |-> dup[1].id]
     ELSE IF similar # <<>>
     THEN st @@ [result |-> "DuplicateSymptom", id |-> similar[1].id]
     ELSE BookAfterChecks(st, t, patient_email, patient_name, symptoms, parsed.time,
                          specialization, cal)

\* the whole tool: the store it leaves, the kind of answer it returns and the
\* appointment id the answer reports (0 when it reports none)
BookAppointmentWithDoctor(st, t, patient_email, patient_name, symptoms, parsed, specialization, cal) ==
  LET all_appointments == st.data.appointments
      dup == PatientScheduledAppointments(all_appointments, t, patient_email)
      similar == RecentSimilarAppointments(all_appointments, t, patient_email, symptoms)
      recent == VeryRecentAppointments(all_appointments, t, patient_email)
  IN IF ~parsed.ok
     THEN st @@ [result |-> "ParseError", id |-> 0]
     ELSE IF TimeRejection(t, parsed.time) # ""
     THEN st @@ [result |-> TimeRejection(t, parsed.time), id |-> 0]
     ELSE IF dup # <<>>
     THEN st @@ [result |-> "DuplicateBooking", id |-> dup[1].id]
     ELSE IF similar # <<>>
     THEN st @@ [result |-> "DuplicateSymptom", id |-> similar[1].id]
     ELSE IF recent # <<>>
     THEN st @@ [result |-> "RateLimit", id |-> recent[1].id]
     ELSE BookAfterChecks(st, t, patient_email, patient_name, symptoms, parsed.time,
                          specialization, cal)

(***************************************************************************)
(* JSONDatabase.get_doctor_active_appointment: of the doctor's appointments *)
(* that are scheduled and not flagged completed, the first after a stable  *)
(* sort by appointment_date; None when there is none.                      *)
(***************************************************************************)
\* a variant that returns the first such appointment in the order of the store
GetDoctorActiveAppointment_FirstStored(d, doctor_email) ==
  LET Test(apt) ==
        /\ apt.doctor_email = doctor_email
        /\ apt.status = "scheduled"
        /\ ~apt.appointment_completed
      doctor_appointments == SelectSeq(d.appointments, Test)
  IN IF doctor_appointments # <<>> THEN Some(doctor_appointments[1]) ELSE None

GetDoctorActiveAppointment(d, doctor_email) ==
  LET Test(apt) ==
        /\ apt.doctor_email = doctor_email
        /\ apt.status = "scheduled"
        /\ ~apt.appointment_completed
      doctor_appointments == SelectSeq(d.appointments, Test)
      first == Min({i \in 1..Len(doctor_appointments) :
                      \A k \in 1..Len(doctor_appointments) :
                        doctor_appointments[i].appointment_date
                          <= doctor_appointments[k].appointment_date})
  IN IF doctor_appointments # <<>> THEN Some(doctor_appointments[first]) ELSE None

(***************************************************************************)
(* get_doctor_current_patient (main.py): the kind of answer and the id of  *)
(* the appointment it reports (0 when it reports none).                    *)
(***************************************************************************)
GetDoctorCurrentPatient(st, doctor_email) ==
  LET active_appointment == GetDoctorActiveAppointment(st.data, doctor_email)
      OfDoctor(apt) == apt.doctor_email = doctor_email
      doctor_appointments == SelectSeq(st.data.appointments, OfDoctor)
  IN IF active_appointment = None
     THEN IF doctor_appointments = <<>>
          THEN [result |-> "NoAppointments", id |-> 0]
          ELSE [result |-> "NoActive", id |-> 0]
     ELSE IF GetPatientByEmail(st.data, active_appointment[1].patient_email) = 0
     THEN [result |-> "PatientNotFound", id |-> 0]
     ELSE [result |-> "CurrentPatient", id |-> active_appointment[1].id]

(***************************************************************************)
(* cancel_appointment (main.py): deletes the appointment; the calendar     *)
(* deletion and the two emails that follow do not touch the store.         *)
(***************************************************************************)
CancelAppointment(st, appointment_id) ==
  IF GetAppointmentById(st.data, appointment_id) = 0
  THEN st @@ [result |-> "NotFound", id |-> 0]
  ELSE St(DeleteAppointment(st, appointment_id))
         @@ [result |-> "Cancelled", id |-> 0]

\* a variant of the completion tool without the already-completed test
CompleteAppointment_Again(st, t, appointment_id, doctor_email) ==
  LET i == GetAppointmentById(st.data, appointment_id)
  IN IF i = 0
     THEN st @@ [result |-> "NotFound", id |-> 0]
     ELSE IF st.data.appointments[i].doctor_email # doctor_email
     THEN st @@ [result |-> "AccessDenied", id |-> 0]
     ELSE St(UpdateAppointmentCompletionStatus(st, t, appointment_id, TRUE))
            @@ [result |-> "Completed", id |-> 0]

(***************************************************************************)
(* complete_appointment_and_collect_visit_data (main.py).                  *)
(***************************************************************************)
CompleteAppointment(st, t, appointment_id, doctor_email) ==
  LET i == GetAppointmentById(st.data, appointment_id)
  IN IF i = 0
     THEN st @@ [result |-> "NotFound", id |-> 0]
     ELSE IF st.data.appointments[i].doctor_email # doctor_email
     THEN st @@ [result |-> "AccessDenied", id |-> 0]
     ELSE IF st.data.appointments[i].appointment_completed
     THEN st @@ [result |-> "AlreadyCompleted", id |-> 0]
     ELSE LET u == UpdateAppointmentCompletionStatus(st, t, appointment_id, TRUE)
          IN IF ~u.ret
             THEN St(u) @@ [result |-> "Failed", id |-> 0]
             ELSE St(u) @@ [result |-> "Completed", id |-> 0]

(***************************************************************************)
(* clean_duplicate_appointments (main.py).  The three passes work on the   *)
(* list of the patient's appointments taken at the start; an appointment   *)
(* that one pass has deleted is still in that list, with its status, for   *)
(* the passes that follow, and deleting it again changes nothing.          *)
(***************************************************************************)
RapidSeconds == 300     \* created within 5 minutes

\* list.sort(key=lambda x: x['created_at']), a stable sort
RECURSIVE SortByCreatedAt(_)
SortByCreatedAt(seq) ==
  IF seq = <<>> THEN <<>>
  ELSE LET i == Min({j \in 1..Len(seq) :
                       \A k \in 1..Len(seq) : seq[j].created_at <= seq[k].created_at})
       IN <<seq[i]>> \o SortByCreatedAt(RemoveAt(seq, i))

\* list.sort(key=lambda x: x['appointment_date']), a stable sort
RECURSIVE SortByAppointmentDate(_)
SortByAppointmentDate(seq) ==
  IF seq = <<>> THEN <<>>
  ELSE LET i == Min({j \in 1..Len(seq) :
                       \A k \in 1..Len(seq) :
                         seq[j].appointment_date <= seq[k].appointment_date})
       IN <<seq[i]>> \o SortByAppointmentDate(RemoveAt(seq, i))

\* the key of pass 1: the symptom text trimmed and lowered, and the day
SymptomsDayKey(apt) == <<Lower(Strip(apt.symptoms)), DateOf(apt.appointment_date)>>

\* pass 1: of the scheduled appointments with one key, all but the one
\* created first
SameSymptomsSameDay(scheduled) ==
  LET sorted == SortByCreatedAt(scheduled)
  IN {sorted[i].id : i \in {j \in 1..Len(sorted) :
                              \E k \in 1..(j - 1) :
                                SymptomsDayKey(sorted[k]) = SymptomsDayKey(sorted[j])}}

\* pass 2: of the scheduled appointments, all but the one with the earliest time
ExtraScheduled(scheduled) ==
  LET sorted == SortByAppointmentDate(scheduled)
  IN {sorted[i].id : i \in 2..Len(sorted)}

\* pass 3: in the order of creation, every scheduled appointment created
\* less than 5 minutes after a scheduled one that precedes it directly
RapidDuplicates(all_patient_appointments) ==
  LET sorted == SortByCreatedAt(all_patient_appointments)
  IN {sorted[i + 1].id : i \in {j \in 1..(Len(sorted) - 1) :
                                  /\ sorted[j].status = "scheduled"
                                  /\ sorted[j + 1].status = "scheduled"
                                  /\ sorted[j + 1].created_at - sorted[j].created_at
                                       < RapidSeconds}}

\* the tool: the store it leaves and the number of removals it reports
CleanDuplicateAppointments(st, patient_email) ==
  LET OfPatient(apt) == apt.patient_email = patient_email
      IsScheduled(apt) == apt.status = "scheduled"
      all_patient_appointments == SelectSeq(st.data.appointments, OfPatient)
      scheduled == SelectSeq(all_patient_appointments, IsScheduled)
      first == SameSymptomsSameDay(scheduled)
      second == ExtraScheduled(scheduled)
      third == RapidDuplicates(all_patient_appointments)
      deleted == first \cup second \cup third
      Kept(apt) == apt.id \notin deleted
  IN IF all_patient_appointments = <<>>
     THEN st @@ [result |-> "NoAppointments", removed |-> 0]
     ELSE IF deleted = {}
     THEN st @@ [result |-> "Cleaned", removed |-> 0]
     ELSE SaveData([st EXCEPT !.data.appointments = SelectSeq(@, Kept)])
            @@ [result |-> "Cleaned",
                removed |-> Cardinality(first) + Cardinality(second) + Cardinality(third)]

(***************************************************************************)
(* send_post_visit_summary (main.py).  medications is the list parsed from *)
(* the medication text; email_ok is the outcome of send_email_via_google.  *)
(* schedule_medication_reminders_with_duration, called in between, ends in *)
(* a TypeError caught on the spot before it writes anything.               *)
(***************************************************************************)
SendPostVisitSummary(st, t, patient_email, doctor_email, visit_summary, medications, instructions, next_appointment, email_ok) ==
  IF GetPatientByEmail(st.data, patient_email) = 0
  THEN st @@ [result |-> "PatientNotFound", id |-> 0]
  ELSE IF GetDoctorByEmail(st.data, doctor_email) = 0
  THEN st @@ [result |-> "DoctorNotFound", id |-> 0]
  ELSE LET st1 == IF medications # <<>>
                  THEN St(UpdatePatientCurrentMedications(st, t, patient_email, medications))
                  ELSE st
           r == AddPostVisitRecord(st1, t, patient_email, doctor_email, visit_summary,
                                   medications, instructions, next_appointment, None)
       IN St(r) @@ [result |-> IF email_ok THEN "Sent" ELSE "EmailFailed", id |-> r.ret]

(***************************************************************************)
(* report_current_medications (main.py).                                   *)
(***************************************************************************)
ReportCurrentMedications(st, t, patient_email, complete_medication_list) ==
  LET i == GetPatientByEmail(st.data, patient_email)
  IN IF i = 0
     THEN st @@ [result |-> "PatientNotFound", id |-> 0]
     ELSE St(AddPatient(st, t, patient_email, st.data.patients[i].name,
                        st.data.patients[i].medical_history,
                        Some(complete_medication_list), None))
            @@ [result |-> "Recorded", id |-> 0]

(***************************************************************************)
(* The tools with their notifications.  Every call to the calendar or to   *)
(* the mail service either succeeds ("ok") or fails ("error").             *)
(***************************************************************************)
ServiceOutcomes == {"ok", "error"}

\* send_email_via_google: True when the mail was sent; whatever goes wrong is
\* caught inside and gives False
SendEmailViaGoogle(outcome) == outcome = "ok"

\* lines 463-477 of book_appointment_with_doctor: the id of the calendar
\* event, None when the calendar call raises
CalendarEventId(outcome) == IF outcome = "ok" THEN Some("evt") ELSE None

\* book_appointment_with_doctor with the calendar call before the insert and
\* the mail to the doctor after it (lines 504-523); the value of
\* send_email_via_google is not looked at
BookAndNotify(st, t, patient_email, patient_name, symptoms, parsed, specialization, calendar, email) ==
  LET r == BookAppointmentWithDoctor(st, t, patient_email, patient_name, symptoms, parsed,
                                     specialization, CalendarEventId(calendar))
  IN r @@ [doctor_notified |-> r.result = "Booked" /\ SendEmailViaGoogle(email)]

\* a variant of cancel_appointment that removes the calendar event first and
\* gives up when that fails
CancelAndNotify_CalendarFirst(st, appointment_id, calendar, patient_mail, doctor_mail) ==
  LET i == GetAppointmentById(st.data, appointment_id)
  IN IF i = 0
     THEN st @@ [result |-> "NotFound", id |-> 0, event_removed |-> FALSE,
                 notified |-> <<FALSE, FALSE>>]
     ELSE IF st.data.appointments[i].google_event_id # None /\ calendar # "ok"
     THEN st @@ [result |-> "Error", id |-> 0, event_removed |-> FALSE,
                 notified |-> <<FALSE, FALSE>>]
     ELSE St(DeleteAppointment(st, appointment_id))
            @@ [result |-> "Cancelled", id |-> 0,
                event_removed |-> st.data.appointments[i].google_event_id # None,
                notified |-> <<SendEmailViaGoogle(patient_mail), SendEmailViaGoogle(doctor_mail)>>]

\* cancel_appointment: the appointment is deleted (line 689), then the
\* calendar event, if the appointment has one, is removed inside a try
\* (693-698), then the two mails are sent (722-723)
CancelAndNotify(st, appointment_id, calendar, patient_mail, doctor_mail) ==
  LET i == GetAppointmentById(st.data, appointment_id)
  IN IF i = 0
     THEN st @@ [result |-> "NotFound", id |-> 0, event_removed |-> FALSE,
                 notified |-> <<FALSE, FALSE>>]
     ELSE LET google_event_id == st.data.appointments[i].google_event_id
          IN St(DeleteAppointment(st, appointment_id))
               @@ [result |-> "Cancelled", id |-> 0,
                   event_removed |-> google_event_id # None /\ calendar = "ok",
                   notified |-> <<SendEmailViaGoogle(patient_mail),
                                  SendEmailViaGoogle(doctor_mail)>>]

(***************************************************************************)
(* The state machine: one action per request, each the whole handler.      *)
(*                                                                         *)
(* db = JSONDatabase() loads whatever document earlier runs have saved.    *)
(* The initial stores are the fresh store and the stores left by doctors   *)
(* registering on the Register page (main.py:2798) at time 0.              *)
(***************************************************************************)
\* the threads that call into the store, and a thread that is in no call
Threads == 1..MaxThreads

IdleThread ==
  [pc |-> "idle", req |-> None, doctor |-> "", appointment_id |-> 0,
   counter |-> 0, result |-> "", id |-> 0]

\* the Register page, role Doctor: db.add_doctor(email, name, specialization)
RegisterDoctorCall(st, t, email, specialization) ==
  AddDoctor(st, t, email, DoctorNameOf(email), specialization, None)

RECURSIVE AfterRegistrations(_, _)
AfterRegistrations(st, regs) ==
  IF regs = <<>> THEN st
  ELSE AfterRegistrations(St(RegisterDoctorCall(st, 0, regs[1][1], regs[1][2])), Tail(regs))

InitialRegistrations ==
  {<<>>,
   <<<<"d1@x", Cardiology>>, <<"d2@x", GeneralMedicine>>>>}

InitialStores ==
  {AfterRegistrations(Store(EmptyData, None), regs) : regs \in InitialRegistrations}

Init ==
  /\ \E st \in InitialStores : data = st.data /\ file = st.file
  /\ now = 0
  /\ ticks = 0
  /\ issued = <<>>
  /\ threads = [i \in Threads |-> IdleThread]

\* the store a handler leaves
Returns(r) ==
  /\ data' = r.data
  /\ file' = r.file

\* time passes between requests
Tick(step) ==
  /\ ticks < MaxTicks
  /\ now' = now + step
  /\ ticks' = ticks + 1
  /\ UNCHANGED <<data, file, issued, threads>>

\* the booking requests made: every patient, symptom text and specialization
\* with each accepted time, and one request per patient for each time that
\* the tool refuses before it looks at anything else
BookingRequests ==
  [patient_email : PatientEmails, patient_name : PatientNames, symptoms : SymptomTexts,
   parsed : {[ok |-> TRUE, time |-> now + off] : off \in AcceptedOffsets},
   specialization : Specializations, cal : CalendarOutcomes]
  \cup
  [patient_email : PatientEmails, patient_name : PatientNames, symptoms : {<<"b">>},
   parsed : {o \in ParseOutcomes(now) : ~o.ok \/ o.time - now \in RefusedOffsets},
   specialization : {GeneralMedicine}, cal : CalendarOutcomes]

\* what book_appointment_with_doctor answers to a request in the current state
BookingAnswer(req) ==
  BookAppointmentWithDoctor(Store(data, file), now, req.patient_email, req.patient_name,
                            req.symptoms, req.parsed, req.specialization, req.cal)

Book(req) ==
  LET r == BookingAnswer(req)
  IN /\ r.result = "Booked" => r.id <= MaxAppointments
     /\ Returns(r)
     /\ issued' = IF r.result = "Booked"
                  THEN Append(issued, <<r.id, req.patient_email>>) ELSE issued
     /\ UNCHANGED <<now, ticks, threads>>

Cancel(appointment_id) ==
  /\ Returns(CancelAppointment(Store(data, file), appointment_id))
  /\ UNCHANGED <<now, ticks, issued, threads>>

Complete(appointment_id, doctor_email) ==
  /\ Returns(CompleteAppointment(Store(data, file), now, appointment_id, doctor_email))
  /\ UNCHANGED <<now, ticks, issued, threads>>

AppointmentIds == 1..MaxAppointments

Next ==
  \/ \E step \in TickSteps : Tick(step)
  \/ \E req \in BookingRequests : Book(req)
  \/ \E id \in AppointmentIds : Cancel(id)
  \/ \E id \in AppointmentIds, e \in DoctorEmails : Complete(id, e)

Spec == Init /\ [][Next]_vars

(***************************************************************************)
(* Vocabulary of the claims.                                               *)
(***************************************************************************)
Appointments == {data.appointments[i] : i \in 1..Len(data.appointments)}

\* the requested time parses, is in the future and at most 60 days ahead
ValidTime(req) ==
  req.parsed.ok /\ now < req.parsed.time /\ req.parsed.time <= now + 60 * 86400

\* the scheduled appointments of a patient that lie in the next 7 days
InLookahead(patient_email) ==
  {a \in Appointments :
     /\ a.patient_email = patient_email
     /\ a.status = "scheduled"
     /\ now < a.appointment_date
     /\ a.appointment_date < now + 7 * 86400}

\* ids issued to a patient whose appointment is no longer in the store
CancelledIdsOf(patient_email) ==
  {issued[k][1] : k \in {j \in 1..Len(issued) : issued[j][2] = patient_email}}
    \ {a.id : a \in Appointments}

\* the doctor a request resolves to (its email), "" when none resolves
ResolvedDoctor(req) ==
  LET doctors == GetDoctorsBySpecialization(data, req.specialization)
  IN IF doctors = <<>> THEN "" ELSE doctors[1].email

\* the scheduled appointments of a doctor less than dist seconds from time
DoctorBusyWithin(doctor_email, time, dist) ==
  {a \in Appointments :
     /\ a.doctor_email = doctor_email
     /\ a.status = "scheduled"
     /\ a.appointment_date - time < dist
     /\ time - a.appointment_date < dist}

\* answers given before a doctor is resolved
EarlyRejections ==
  {"ParseError", "InvalidTimePast", "InvalidTimeTooFar", "DuplicateBooking",
   "DuplicateSymptom", "RateLimit"}

\* a booking was made: the store gained exactly one scheduled appointment
\* with the request's fields and the answer reports its id
BookedAs(req, r, doctor_email) ==
  /\ r.result = "Booked"
  /\ r.id = data.next_appointment_id
  /\ Len(r.data.appointments) = Len(data.appointments) + 1
  /\ SubSeq(r.data.appointments, 1, Len(data.appointments)) = data.appointments
  /\ LET a == r.data.appointments[Len(r.data.appointments)]
     IN /\ a.id = r.id
        /\ a.patient_email = req.patient_email
        /\ a.doctor_email = doctor_email
        /\ a.appointment_date = req.parsed.time
        /\ a.status = "scheduled"

Normalised(symptoms) == Lower(Strip(symptoms))

\* the appointments of the request's patient, scheduled or completed, created
\* less than 24 hours ago with the same symptom text after normalisation
SimilarRecent(req) ==
  {a \in Appointments :
     /\ a.patient_email = req.patient_email
     /\ a.status \in {"scheduled", "completed"}
     /\ now - a.created_at < 24 * 3600
     /\ Normalised(a.symptoms) = Normalised(req.symptoms)}

\* the request passes every check that concerns the patient alone: its time
\* is valid, the patient has no scheduled appointment in the lookahead, no
\* similar recent appointment and no appointment created in the last 10 minutes
PatientClear(req) ==
  /\ ValidTime(req)
  /\ InLookahead(req.patient_email) = {}
  /\ SimilarRecent(req) = {}
  /\ \A a \in Appointments :
       a.patient_email = req.patient_email => now - a.created_at >= 10 * 60

(***************************************************************************)
(* C3: a booking that passes the patient's own checks and resolves to      *)
(* doctor D is rejected as a doctor conflict, reporting a conflicting      *)
(* appointment and creating none, exactly when D has a scheduled           *)
(* appointment less than one hour from the requested time; otherwise (so   *)
(* in particular when every scheduled appointment of D is 61 minutes or    *)
(* more away) it creates the appointment with D.                           *)
(***************************************************************************)
C3_DoctorConflict ==
  \A req \in BookingRequests :
    LET r == BookingAnswer(req)
        D == ResolvedDoctor(req)
        busy == DoctorBusyWithin(D, req.parsed.time, 60 * 60)
    IN /\ (PatientClear(req) /\ D # "" /\ busy # {})
            => /\ r.result = "DoctorConflict"
               /\ r.id \in {a.id : a \in busy}
               /\ r.data.appointments = data.appointments
               /\ r.data.next_appointment_id = data.next_appointment_id
       /\ (PatientClear(req) /\ D # "" /\ busy = {})
            => BookedAs(req, r, D)
       /\ (PatientClear(req) /\ D # ""
             /\ DoctorBusyWithin(D, req.parsed.time, 61 * 60) = {})
            => BookedAs(req, r, D)
       /\ r.result = "DoctorConflict"
            => (PatientClear(req) /\ D # "" /\ busy # {})

\* a doctor-conflict rejection reporting a scheduled appointment of another
\* patient with a doctor who also holds no appointment of the rejected one
C3_Witness ==
  \E a \in Appointments, req \in BookingRequests :
    /\ a.status = "scheduled"
    /\ req.patient_email # a.patient_email
    /\ GetPatientByEmail(data, req.patient_email) # 0
    /\ \A b \in Appointments : b.patient_email # req.patient_email
    /\ ResolvedDoctor(req) = a.doctor_email
    /\ req.parsed.time # a.appointment_date
    /\ BookingAnswer(req).result = "DoctorConflict"
    /\ BookingAnswer(req).id = a.id

(***************************************************************************)
(* C4 (as stated): a booking whose symptom text equals, after trimming and *)
(* case-folding, that of an appointment of the same patient, scheduled or  *)
(* completed, created less than 24 hours earlier is rejected as a          *)
(* duplicate symptom.  (Read with a valid requested time.)                 *)
(***************************************************************************)
C4_AsStated ==
  \A req \in BookingRequests :
    (ValidTime(req) /\ SimilarRecent(req) # {})
      => BookingAnswer(req).result = "DuplicateSymptom"

(***************************************************************************)
(* C4 (amended): a booking with a valid time by a patient with no          *)
(* scheduled appointment in the 7-day lookahead is rejected as a duplicate *)
(* symptom, reporting the first similar appointment and leaving the store  *)
(* unchanged, when its symptom text equals, after trimming and             *)
(* case-folding, that of an appointment of the same patient, scheduled or  *)
(* completed, created less than 24 hours earlier; no other booking is      *)
(* rejected as a duplicate symptom, so differing text never is.            *)
(***************************************************************************)
C4_DuplicateSymptom ==
  \A req \in BookingRequests :
    LET r == BookingAnswer(req)
        similar == SimilarRecent(req)
    IN /\ (ValidTime(req) /\ InLookahead(req.patient_email) = {} /\ similar # {})
            => /\ r.result = "DuplicateSymptom"
               /\ r.id \in {a.id : a \in similar}
               /\ \A a \in similar : r.id <= a.id
               /\ St(r) = Store(data, file)
       /\ r.result = "DuplicateSymptom"
            => /\ ValidTime(req)
               /\ InLookahead(req.patient_email) = {}
               /\ similar # {}

\* a duplicate-symptom rejection of a text that differs from the stored one
\* in case or surrounding blanks
C4_Witness ==
  \E a \in Appointments, req \in BookingRequests :
    /\ a.status = "completed"
    /\ req.patient_email = a.patient_email
    /\ req.symptoms # a.symptoms
    /\ BookingAnswer(req).result = "DuplicateSymptom"
    /\ BookingAnswer(req).id = a.id

(***************************************************************************)
(* Vocabulary of C6.                                                       *)
(***************************************************************************)
\* what complete_appointment_and_collect_visit_data answers, at time t on
\* store st, to the doctor of appointment a
CompletionAnswer(st, t, a) == CompleteAppointment(st, t, a.id, a.doctor_email)

\* the later times at which the completion may be asked again
LaterTimes == {now} \cup {now + step : step \in TickSteps}

(***************************************************************************)
(* C6: completing a scheduled appointment by its own doctor succeeds and   *)
(* sets appointment_completed, status "completed" and the completion       *)
(* timestamp (the current time) together, changing nothing else in the     *)
(* store; completing it again, then or later, answers "already completed"  *)
(* and leaves the store, completion timestamp included, unchanged.  The    *)
(* same answer is given for every appointment found completed.             *)
(***************************************************************************)
C6_Completion ==
  \A i \in 1..Len(data.appointments) :
    LET a == data.appointments[i]
        r == CompletionAnswer(Store(data, file), now, a)
    IN /\ (a.status = "scheduled" /\ GetAppointmentById(data, a.id) = i)
            => /\ r.result = "Completed"
               /\ r.data = [data EXCEPT !.appointments[i] =
                              [a EXCEPT !.appointment_completed = TRUE,
                                        !.status = "completed",
                                        !.completed_at = Some(now)]]
               /\ \A t \in LaterTimes :
                    LET again == CompletionAnswer(St(r), t, a)
                    IN /\ again.result = "AlreadyCompleted"
                       /\ St(again) = St(r)
       /\ a.status = "completed"
            => /\ a.appointment_completed
               /\ a.completed_at # None
               /\ r.result = "AlreadyCompleted"
               /\ St(r) = Store(data, file)

\* an appointment completed at an earlier time, whose doctor is answered
\* "already completed" now
C6_Witness ==
  \E a \in Appointments :
    /\ a.status = "completed"
    /\ a.appointment_completed
    /\ a.completed_at # None
    /\ a.completed_at # Some(now)
    /\ CompletionAnswer(Store(data, file), now, a).result = "AlreadyCompleted"

(***************************************************************************)
(* C9: appointment ids are never reused: next_appointment_id is greater    *)
(* than every id ever returned by create_appointment, deleted ones         *)
(* included, the ids are returned in increasing order, and every stored    *)
(* appointment carries an id that was returned, each at most once.         *)
(***************************************************************************)
C9_IdsNeverReused ==
  /\ \A k \in 1..Len(issued) : issued[k][1] < data.next_appointment_id
  /\ \A j, k \in 1..Len(issued) : j < k => issued[j][1] < issued[k][1]
  /\ \A a \in Appointments : \E k \in 1..Len(issued) : issued[k][1] = a.id
  /\ \A i, j \in 1..Len(data.appointments) :
       i # j => data.appointments[i].id # data.appointments[j].id

\* a booking made after a cancellation: the newest id is stored, an older id
\* of the same patient is gone
C9_Witness ==
  /\ Len(issued) >= 2
  /\ LET newest == issued[Len(issued)]
     IN /\ \E a \in Appointments : a.id = newest[1] /\ a.patient_email = newest[2]
        /\ \E c \in CancelledIdsOf(newest[2]) : c < newest[1]

(***************************************************************************)
(* The store used directly: one action per mutating method of              *)
(* JSONDatabase, called by one thread, and the restart of the process,     *)
(* which opens the store again from its file.                              *)
(***************************************************************************)
\* the arguments of the direct calls
StoreSymptoms == {None, Some(<<"a">>)}
StoreUpdates == {[current_medication |-> Some(<<"Aspirin 81mg">>)]}
StoreVisitSummary == <<"summary">>

\* the store a method leaves
Leaves(r) ==
  /\ data' = r.data
  /\ file' = r.file
  /\ UNCHANGED <<now, ticks, threads>>

StoreAddPatient(email, current_symptoms) ==
  /\ Leaves(AddPatient(Store(data, file), now, email, "Pat", None, None, current_symptoms))
  /\ UNCHANGED issued

StoreAddDoctor(email, specialization) ==
  /\ Leaves(RegisterDoctorCall(Store(data, file), now, email, specialization))
  /\ UNCHANGED issued

StoreCreateAppointment(patient_email, doctor_email) ==
  LET r == CreateAppointment(Store(data, file), now, patient_email, doctor_email,
                             <<"a">>, now + 3600, None)
  IN /\ data.next_appointment_id <= MaxAppointments
     /\ Leaves(r)
     /\ issued' = IF r.raised THEN issued ELSE Append(issued, <<r.ret, patient_email>>)

StoreDeleteAppointment(appointment_id) ==
  /\ Leaves(DeleteAppointment(Store(data, file), appointment_id))
  /\ UNCHANGED issued

StoreUpdateCompletion(appointment_id, completed) ==
  /\ Leaves(UpdateAppointmentCompletionStatus(Store(data, file), now, appointment_id, completed))
  /\ UNCHANGED issued

StoreUpdatePatient(email, updated_data) ==
  /\ Leaves(UpdatePatient(Store(data, file), email, updated_data))
  /\ UNCHANGED issued

StoreUpdateSymptoms(email, current_symptoms) ==
  /\ Leaves(UpdatePatientSymptoms(Store(data, file), email, current_symptoms))
  /\ UNCHANGED issued

StoreClearSymptoms(email) ==
  /\ Leaves(ClearPatientSymptoms(Store(data, file), email))
  /\ UNCHANGED issued

StoreAddPostVisitRecord(patient_email, doctor_email, medications) ==
  /\ data.next_visit_record_id <= MaxVisitRecords
  /\ Leaves(AddPostVisitRecord(Store(data, file), now, patient_email, doctor_email,
                               StoreVisitSummary, medications, None, None, None))
  /\ UNCHANGED issued

\* the process restarts: JSONDatabase() reads the file again
Reopen ==
  /\ data' = LoadData(file)
  /\ UNCHANGED <<file, now, ticks, issued, threads>>

StoreNext ==
  \/ \E e \in {"p1@x"}, s \in StoreSymptoms : StoreAddPatient(e, s)
  \/ \E e \in {"d1@x"}, sp \in Specializations : StoreAddDoctor(e, sp)
  \/ \E p \in PatientEmails, d \in {"d1@x"} : StoreCreateAppointment(p, d)
  \/ \E id \in AppointmentIds : StoreDeleteAppointment(id)
  \/ \E id \in AppointmentIds, c \in BOOLEAN : StoreUpdateCompletion(id, c)
  \/ \E e \in PatientEmails, u \in StoreUpdates : StoreUpdatePatient(e, u)
  \/ \E e \in PatientEmails : StoreUpdateSymptoms(e, Some(<<"b">>))
  \/ \E e \in PatientEmails : StoreClearSymptoms(e)
  \/ \E p \in PatientEmails, d \in {"d1@x"}, m \in ParsedMedicationLists :
       StoreAddPostVisitRecord(p, d, m)
  \/ Reopen

StoreSpec == Init /\ [][StoreNext]_vars

(***************************************************************************)
(* C8: whenever a mutating store operation (add_patient, add_doctor,       *)
(* create_appointment, delete_appointment,                                 *)
(* update_appointment_completion_status, update_patient,                   *)
(* update/clear_patient_symptoms, add_post_visit_record) has returned, the *)
(* persisted document equals the in-memory state: a store opened again     *)
(* from the file holds exactly the data the running store holds.           *)
(***************************************************************************)
C8_SavedBeforeReturn == LoadData(file) = data

\* a store written by several operations: a patient changed by
\* update_patient, a completed appointment and a visit record, all on file
C8_Witness ==
  /\ file # None
  /\ \E i \in 1..Len(data.patients) :
       data.patients[i].current_medication = Some(<<"Aspirin 81mg">>)
  /\ \E a \in Appointments : a.status = "completed"
  /\ data.post_visit_records # <<>>

(***************************************************************************)
(* C10: delete_appointment is idempotent: on the id of a stored            *)
(* appointment the first call returns true and removes exactly that        *)
(* appointment, a second call with the same id returns false and changes   *)
(* nothing; a call with an id that is not stored, whether it was deleted   *)
(* before or never existed, returns false and changes nothing.             *)
(***************************************************************************)
C10_DeleteIdempotent ==
  \A id \in 1..(MaxAppointments + 1) :
    LET st == Store(data, file)
        first == DeleteAppointment(st, id)
        second == DeleteAppointment(St(first), id)
        Other(a) == a.id # id
    IN /\ (\E a \in Appointments : a.id = id)
            => /\ first.ret = TRUE
               /\ first.data = [data EXCEPT !.appointments = SelectSeq(@, Other)]
               /\ Len(first.data.appointments) = Len(data.appointments) - 1
               /\ LoadData(first.file) = first.data
               /\ second.ret = FALSE
               /\ St(second) = St(first)
       /\ (\A a \in Appointments : a.id # id)
            => /\ first.ret = FALSE
               /\ St(first) = st

\* an appointment has been deleted while another one is still stored:
\* deleting the deleted id again returns false, and so does an id never issued
C10_Witness ==
  /\ \E k \in 1..Len(issued) :
       /\ \A a \in Appointments : a.id # issued[k][1]
       /\ DeleteAppointment(Store(data, file), issued[k][1]).ret = FALSE
  /\ Appointments # {}
  /\ DeleteAppointment(Store(data, file), data.next_appointment_id).ret = FALSE

(***************************************************************************)
(* Arguments of the store calls that the claims below range over.          *)
(***************************************************************************)
\* a patient / a doctor with this email is stored in the current document
PatientStored(email) == \E k \in 1..Len(data.patients) : data.patients[k].email = email
DoctorStored(email) == \E k \in 1..Len(data.doctors) : data.doctors[k].email = email

\* the medication summary stored for a patient ("" when there is none)
MedicationSummaryOf(email) ==
  LET i == IndexByEmail(data.patients, email)
  IN IF i # 0 /\ Truthy(data.patients[i].current_medication)
     THEN data.patients[i].current_medication[1] ELSE <<>>

\* an email that no action ever registers
UnknownEmail == "nobody@x"

AppointmentTimes == {now + 3600, now + 691200}
EventRefs == {None, Some("evt")}

(***************************************************************************)
(* C11: for every stored patient and stored doctor, create_appointment     *)
(* followed by get_appointment_by_id on the returned id yields a record    *)
(* whose patient email, doctor email, symptoms, scheduled time and         *)
(* calendar-event reference are the values passed to the insert, whose     *)
(* status is "scheduled" and whose completion flag is false.               *)
(***************************************************************************)
C11_InsertThenLookup ==
  \A p \in PatientEmails, d \in DoctorEmails, s \in SymptomTexts,
     at \in AppointmentTimes, ev \in EventRefs :
    (PatientStored(p) /\ DoctorStored(d))
      => LET r == CreateAppointment(Store(data, file), now, p, d, s, at, ev)
             i == GetAppointmentById(r.data, r.ret)
         IN /\ ~r.raised
            /\ i # 0
            /\ LET a == r.data.appointments[i]
               IN /\ a.id = r.ret
                  /\ a.patient_email = p
                  /\ a.doctor_email = d
                  /\ a.symptoms = s
                  /\ a.appointment_date = at
                  /\ a.status = "scheduled"
                  /\ a.appointment_completed = FALSE
                  /\ a.google_event_id = ev

\* an appointment is stored next to an older one, and one more insert with a
\* calendar event for a stored pair is looked up by the id it returns
C11_Witness ==
  /\ Len(data.appointments) >= 1
  /\ \E k \in 1..Len(issued) : GetAppointmentById(data, issued[k][1]) # 0
  /\ \E p \in PatientEmails, d \in DoctorEmails :
       /\ PatientStored(p) /\ DoctorStored(d)
       /\ LET r == CreateAppointment(Store(data, file), now, p, d, <<"b">>, now + 3600, Some("evt"))
          IN /\ r.ret = data.next_appointment_id
             /\ r.ret > 1
             /\ GetAppointmentById(r.data, r.ret) = Len(data.appointments) + 1

(***************************************************************************)
(* C12: round trip.  In every reachable state of the store, writing the    *)
(* document with save_data and reading it back with load_data gives a      *)
(* document equal to the one written: the same patients, doctors,          *)
(* appointments and visit records, field for field, and the same four      *)
(* counters.                                                               *)
(***************************************************************************)
C12_RoundTrip ==
  LET saved == SaveData(Store(data, file))
      loaded == LoadData(saved.file)
  IN /\ DOMAIN loaded = DOMAIN data
     /\ \A key \in DOMAIN data : loaded[key] = data[key]
     /\ JsonLoad(JsonDump(data)) = data

\* a document with every kind of value in it: a patient with a null field
\* and a string field, a completed appointment, a visit record with a
\* medication list
C12_Witness ==
  /\ \E k \in 1..Len(data.patients) :
       /\ data.patients[k].current_symptoms = None
       /\ data.patients[k].current_medication # None
  /\ data.doctors # <<>>
  /\ \E a \in Appointments : a.appointment_completed /\ a.completed_at # None
  /\ \E k \in 1..Len(data.post_visit_records) :
       data.post_visit_records[k].medications # <<>>
  /\ LoadData(SaveData(Store(data, file)).file) = data

(***************************************************************************)
(* C15: create_appointment with a patient email or a doctor email that     *)
(* does not resolve to a stored record raises, and leaves the store as it  *)
(* was: no appointment appended, next_appointment_id not advanced, nothing *)
(* written to the file.                                                    *)
(***************************************************************************)
C15_UnknownReferenceRejected ==
  \A p \in PatientEmails \cup {UnknownEmail}, d \in DoctorEmails \cup {UnknownEmail},
     s \in SymptomTexts, at \in AppointmentTimes, ev \in EventRefs :
    (~PatientStored(p) \/ ~DoctorStored(d))
      => LET r == CreateAppointment(Store(data, file), now, p, d, s, at, ev)
         IN /\ r.raised
            /\ r.data.appointments = data.appointments
            /\ r.data.next_appointment_id = data.next_appointment_id
            /\ r.data = data
            /\ r.file = file

\* appointments are stored, a patient is stored and a doctor is not: the
\* insert for that patient and that doctor raises, and so does the insert
\* for an unknown patient and a stored doctor
C15_Witness ==
  /\ data.appointments # <<>>
  /\ \E p \in PatientEmails, d \in DoctorEmails :
       /\ PatientStored(p) /\ ~DoctorStored(d)
       /\ CreateAppointment(Store(data, file), now, p, d, <<"a">>, now + 3600, None).raised
  /\ \E d \in DoctorEmails :
       /\ DoctorStored(d)
       /\ CreateAppointment(Store(data, file), now, UnknownEmail, d, <<"a">>, now + 3600, None).raised

(***************************************************************************)
(* C16: add_post_visit_record with a patient email or a doctor email that  *)
(* does not resolve returns None (no visit-record id) and leaves the store *)
(* as it was: no visit record appended, next_visit_record_id not advanced, *)
(* the medication summary of every patient untouched.                      *)
(***************************************************************************)
C16_UnknownVisitRejected ==
  \A p \in PatientEmails \cup {UnknownEmail}, d \in DoctorEmails \cup {UnknownEmail},
     m \in ParsedMedicationLists :
    (~PatientStored(p) \/ ~DoctorStored(d))
      => LET r == AddPostVisitRecord(Store(data, file), now, p, d, StoreVisitSummary, m,
                                     None, None, None)
         IN /\ r.ret = 0
            /\ r.data.post_visit_records = data.post_visit_records
            /\ r.data.next_visit_record_id = data.next_visit_record_id
            /\ r.data.patients = data.patients
            /\ r.data = data
            /\ r.file = file

\* a patient with a medication summary is stored and a doctor is not: a visit
\* record with medications for that patient by that doctor is refused
C16_Witness ==
  \E p \in PatientEmails, d \in DoctorEmails :
    /\ PatientStored(p) /\ ~DoctorStored(d)
    /\ MedicationSummaryOf(p) # <<>>
    /\ \E m \in ParsedMedicationLists :
         /\ m # <<>>
         /\ AddPostVisitRecord(Store(data, file), now, p, d, StoreVisitSummary, m,
                               None, None, None).ret = 0

(***************************************************************************)
(* Arguments of add_patient: each optional field is passed as None, as the *)
(* empty string or as a text.                                              *)
(***************************************************************************)
OptionalTexts == {None, Some(<<>>), Some(<<"x">>)}
UpsertNames == {"Pat", "Patricia"}

\* the record stored for an email in document d
PatientOf(d, email) == d.patients[IndexByEmail(d.patients, email)]
\* the number of records stored for an email in document d
RecordsOf(d, email) == Cardinality({k \in 1..Len(d.patients) : d.patients[k].email = email})

(***************************************************************************)
(* C17: add_patient is idempotent.  Called twice in a row with the same    *)
(* arguments (the second call later than the first), it returns the same   *)
(* patient id both times and the second call leaves the document and the   *)
(* file exactly as the first call left them; one record is stored for the  *)
(* email.                                                                  *)
(***************************************************************************)
C17_UpsertIdempotent ==
  \A e \in PatientEmails, n \in UpsertNames, mh \in OptionalTexts, cm \in OptionalTexts,
     cs \in OptionalTexts, later \in {0, 60} :
    LET first == AddPatient(Store(data, file), now, e, n, mh, cm, cs)
        second == AddPatient(St(first), now + later, e, n, mh, cm, cs)
    IN /\ second.ret = first.ret
       /\ second.data.patients = first.data.patients
       /\ second.data.next_patient_id = first.data.next_patient_id
       /\ second.data = first.data
       /\ second.file = first.file
       /\ RecordsOf(second.data, e) = 1

\* a second patient is stored with a medication summary; add_patient for a
\* stored and for a new email returns the same id when it is repeated
C17_Witness ==
  /\ \E e \in PatientEmails :
       /\ PatientStored(e)
       /\ MedicationSummaryOf(e) # <<>>
       /\ LET first == AddPatient(Store(data, file), now, e, "Patricia", None, Some(<<"x">>), None)
              second == AddPatient(St(first), now + 60, e, "Patricia", None, Some(<<"x">>), None)
          IN first.ret = PatientOf(data, e).id /\ second.ret = first.ret
  /\ \E e \in PatientEmails :
       /\ ~PatientStored(e)
       /\ LET first == AddPatient(Store(data, file), now, e, "Pat", None, None, None)
              second == AddPatient(St(first), now + 60, e, "Pat", None, None, None)
          IN first.ret = data.next_patient_id /\ second.ret = first.ret

\* the fields of a patient that add_patient merges
MergedFields == {"medical_history", "current_medication", "current_symptoms"}

\* what add_patient stores for the arguments when the email is new
CreatedPatient(d, t, e, n, args) ==
  [id |-> d.next_patient_id, name |-> n, email |-> e,
   medical_history |-> args.medical_history,
   current_medication |-> args.current_medication,
   current_symptoms |-> args.current_symptoms,
   created_at |-> t]

UpsertArguments ==
  [medical_history : OptionalTexts, current_medication : OptionalTexts,
   current_symptoms : OptionalTexts]

UpsertAnswer(e, n, args) ==
  AddPatient(Store(data, file), now, e, n, args.medical_history, args.current_medication,
             args.current_symptoms)

(***************************************************************************)
(* C18 (as stated): add_patient on a stored email keeps the id and the     *)
(* creation time of the patient and merges field by field: every field     *)
(* passed as a non-null value replaces the stored value, every field       *)
(* passed as null is left as stored.  On a new email it stores a record    *)
(* under the next identifier and advances next_patient_id by one.          *)
(***************************************************************************)
C18_AsStated ==
  \A e \in PatientEmails, n \in UpsertNames, args \in UpsertArguments :
    LET r == UpsertAnswer(e, n, args)
        after == PatientOf(r.data, e)
    IN PatientStored(e)
         => LET before == PatientOf(data, e)
            IN /\ r.ret = before.id
               /\ after.id = before.id
               /\ after.created_at = before.created_at
               /\ \A f \in {"medical_history", "current_medication"} :
                    after[f] = IF args[f] # None THEN args[f] ELSE before[f]

(***************************************************************************)
(* C18 (amended): add_patient on a stored email keeps the id and the       *)
(* creation time of the patient, stores the name passed, and merges field  *)
(* by field: every field passed as a non-empty text replaces the stored    *)
(* value, every field passed as null or as the empty string is left as     *)
(* stored; no other patient changes and next_patient_id stays.  On a new   *)
(* email it appends a record holding the arguments under the identifier    *)
(* next_patient_id and advances next_patient_id by one.                    *)
(***************************************************************************)
C18_MergeByField ==
  \A e \in PatientEmails, n \in UpsertNames, args \in UpsertArguments :
    LET r == UpsertAnswer(e, n, args)
        after == PatientOf(r.data, e)
    IN /\ PatientStored(e)
            => LET before == PatientOf(data, e)
                   i == IndexByEmail(data.patients, e)
               IN /\ r.ret = before.id
                  /\ after.id = before.id
                  /\ after.created_at = before.created_at
                  /\ after.name = n
                  /\ \A f \in MergedFields :
                       after[f] = IF args[f] # None /\ args[f] # Some(<<>>)
                                  THEN args[f] ELSE before[f]
                  /\ r.data = [data EXCEPT !.patients[i] = after]
       /\ ~PatientStored(e)
            => /\ r.ret = data.next_patient_id
               /\ r.data = [data EXCEPT !.patients = Append(@, CreatedPatient(data, now, e, n, args)),
                                         !.next_patient_id = @ + 1]

\* a patient with symptoms and a medication summary is stored and another
\* email is new: a call that passes a new medication text, null symptoms and
\* an empty history replaces the first and keeps the other two
C18_Witness ==
  /\ \E e \in PatientEmails :
       /\ PatientStored(e)
       /\ MedicationSummaryOf(e) # <<>>
       /\ PatientOf(data, e).current_symptoms = Some(<<"b">>)
       /\ LET args == [medical_history |-> Some(<<>>), current_medication |-> Some(<<"x">>),
                       current_symptoms |-> None]
              after == PatientOf(UpsertAnswer(e, "Patricia", args).data, e)
          IN /\ after.current_medication = Some(<<"x">>)
             /\ after.current_symptoms = Some(<<"b">>)
             /\ after.medical_history = PatientOf(data, e).medical_history
  /\ \E e \in PatientEmails : ~PatientStored(e)

(***************************************************************************)
(* Opening the store on whatever the file holds: JSONDatabase() runs       *)
(* load_data on a file left by an earlier version of the program, damaged, *)
(* or missing.                                                             *)
(***************************************************************************)
\* a document as the current version writes it: two doctors, a patient, a
\* completed and a scheduled appointment
SampleStore ==
  LET s0 == AfterRegistrations(Store(EmptyData, None),
                               <<<<"d1@x", Cardiology>>, <<"d2@x", GeneralMedicine>>>>)
      s1 == St(AddPatient(s0, 0, "p1@x", "Pat", None, None, Some(<<"a">>)))
      s2 == St(CreateAppointment(s1, 0, "p1@x", "d1@x", <<"a">>, 3600, Some("evt")))
      s3 == St(CreateAppointment(s2, 0, "p1@x", "d2@x", <<"b">>, 691200, None))
  IN St(UpdateAppointmentCompletionStatus(s3, 0, 1, TRUE))
SampleText == JsonDump(SampleStore.data)

\* the keys that the first documents did not have yet
NewerKeys ==
  {"next_patient_id", "next_doctor_id", "next_appointment_id", "post_visit_records",
   "next_visit_record_id"}
\* the collections that every version writes
CoreKeys == {"patients", "doctors", "appointments"}

\* an object without the members named in keys
WithoutMembers(j, keys) ==
  LET Kept(m) == m.key \notin keys
  IN JObject(SelectSeq(j.v, Kept))
\* an object with the value of one member replaced
WithMember(j, key, value) ==
  JObject([k \in 1..Len(j.v) |-> IF j.v[k].key = key THEN Member(key, value) ELSE j.v[k]])

\* the sample document as an earlier version left it: without the keys in
\* dropped, and without the appointment_completed flag on the appointments
\* whose position is in unflagged
OlderDocument(dropped, unflagged) ==
  LET apps == ObjectGet(SampleText, "appointments").v
      old == [k \in 1..Len(apps) |->
                IF k \in unflagged
                THEN WithoutMembers(apps[k], {"appointment_completed", "completed_at"})
                ELSE apps[k]]
  IN WithoutMembers(WithMember(SampleText, "appointments", JArray(old)), dropped)
OlderDocuments ==
  {OlderDocument(dropped, unflagged) : dropped \in SUBSET NewerKeys, unflagged \in SUBSET {1, 2}}

\* damaged content: text that is not JSON, JSON that is not an object, an
\* object that lost some of its collections, an object whose appointments
\* are not a list of objects
DamagedDocuments ==
  {Unparseable, JNull, JNumber(7), JString(<<"x">>), JArray(<<>>), JObject(<<>>),
   WithMember(SampleText, "appointments", JNumber(3)),
   WithMember(SampleText, "appointments", JArray(<<JNumber(3)>>))}
    \cup {WithoutMembers(SampleText, lost \cup dropped) :
            lost \in (SUBSET CoreKeys) \ {{}}, dropped \in {{}, NewerKeys}}

PersistedDocuments ==
  {None} \cup {Some(doc) : doc \in OlderDocuments \cup DamagedDocuments}

\* the program starts on a file holding content: db = JSONDatabase()
OpenStoreOn(content) ==
  /\ file' = content
  /\ data' = LoadData(content)
  /\ UNCHANGED <<now, ticks, issued, threads>>

LoadNext == \E content \in PersistedDocuments : OpenStoreOn(content)

LoadSpec == Init /\ [][LoadNext]_vars

\* the document has every collection and every counter
WellFormed(d) ==
  /\ DOMAIN d = DOMAIN EmptyData
  /\ \A key \in {"next_patient_id", "next_doctor_id", "next_appointment_id",
                  "next_visit_record_id"} : d[key] \in Nat \ {0}

\* the file is absent, or its content is not a document of any version
Damaged(f) ==
  \/ f = None
  \/ TextOf(f[1]).json # "object"
  \/ ~(CoreKeys \subseteq ObjectKeys(TextOf(f[1])))
  \/ ~IsArrayOfObjects(ObjectGet(TextOf(f[1]), "appointments"))

(***************************************************************************)
(* C13 (as stated): opening the store never fails.  When the file is       *)
(* absent, unreadable or corrupted the store that load_data returns is the *)
(* well-formed empty default: it has the four collections patients,        *)
(* doctors, appointments and post_visit_records and the four counters.     *)
(***************************************************************************)
C13_OpenNeverFails ==
  Damaged(file) => (WellFormed(data) /\ data = EmptyData)

(***************************************************************************)
(* C14: a document of an earlier version, which lacks newer fields, is     *)
(* accepted.  After the load every appointment of the document is there    *)
(* with an appointment_completed flag (false where the document had none), *)
(* every counter and the post_visit_records collection are present (1 and  *)
(* empty where the document had none), and every field that the document   *)
(* had keeps its value.                                                    *)
(***************************************************************************)
C14_OlderDocumentAccepted ==
  ~Damaged(file)
    => LET doc == JsonLoad(TextOf(file[1]))
       IN /\ DOMAIN data = DOMAIN doc \cup NewerKeys
          /\ \A key \in DOMAIN doc \ {"appointments"} : data[key] = doc[key]
          /\ \A key \in NewerKeys \ DOMAIN doc : data[key] = EmptyData[key]
          /\ Len(data.appointments) = Len(doc.appointments)
          /\ \A k \in 1..Len(doc.appointments) :
               LET before == doc.appointments[k]
                   after == data.appointments[k]
               IN /\ DOMAIN after = DOMAIN before \cup {"appointment_completed"}
                  /\ \A key \in DOMAIN before : after[key] = before[key]
                  /\ "appointment_completed" \notin DOMAIN before
                       => after.appointment_completed = FALSE

\* the store was opened on a document without its appointment counter and
\* without visit records, in which one appointment has no flag and another is
\* flagged as completed
C14_Witness ==
  /\ file # None
  /\ ~Damaged(file)
  /\ LET doc == JsonLoad(TextOf(file[1]))
     IN /\ "next_appointment_id" \notin DOMAIN doc
        /\ "post_visit_records" \notin DOMAIN doc
        /\ \E k \in 1..Len(doc.appointments) :
             "appointment_completed" \notin DOMAIN doc.appointments[k]
        /\ \E k \in 1..Len(doc.appointments) :
             /\ "appointment_completed" \in DOMAIN doc.appointments[k]
             /\ doc.appointments[k].appointment_completed
  /\ data.next_appointment_id = 1
  /\ data.post_visit_records = <<>>
  /\ \E k \in 1..Len(data.appointments) : ~data.appointments[k].appointment_completed
  /\ data.patients # <<>>

(***************************************************************************)
(* After the visit: patients register, report the medications they take,   *)
(* and doctors send post-visit summaries.                                  *)
(***************************************************************************)
\* the medication lists that patients report
ReportedMedicationTexts == {<<"Aspirin 81mg">>}

\* the Register page, role Patient: db.add_patient(email, name)
RegisterPatient(email) ==
  /\ Leaves(AddPatient(Store(data, file), now, email, "Pat", None, None, None))
  /\ UNCHANGED issued

ReportMedications(patient_email, complete_medication_list) ==
  /\ Leaves(ReportCurrentMedications(Store(data, file), now, patient_email,
                                     complete_medication_list))
  /\ UNCHANGED issued

\* what send_post_visit_summary answers in the current state
SummaryAnswer(patient_email, doctor_email, medications, email_ok) ==
  SendPostVisitSummary(Store(data, file), now, patient_email, doctor_email,
                       StoreVisitSummary, medications, None, None, email_ok)

SendSummary(patient_email, doctor_email, medications, email_ok) ==
  /\ data.next_visit_record_id <= MaxVisitRecords
  /\ Leaves(SummaryAnswer(patient_email, doctor_email, medications, email_ok))
  /\ UNCHANGED issued

VisitNext ==
  \/ \E e \in PatientEmails : RegisterPatient(e)
  \/ \E e \in PatientEmails, m \in ReportedMedicationTexts : ReportMedications(e, m)
  \/ \E p \in PatientEmails, d \in DoctorEmails, m \in ParsedMedicationLists,
        ok \in BOOLEAN : SendSummary(p, d, m, ok)

VisitSpec == Init /\ [][VisitNext]_vars

\* the current-medication summary of a patient in document d (empty when the
\* patient has none)
MedicationSummary(d, patient_email) ==
  LET i == GetPatientByEmail(d, patient_email)
  IN IF i # 0 /\ Truthy(d.patients[i].current_medication)
     THEN d.patients[i].current_medication[1] ELSE <<>>

(***************************************************************************)
(* C5 (as stated): a post-visit summary sent with a medication list for a  *)
(* registered patient by a registered doctor never replaces or drops what  *)
(* the patient's current-medication summary held: the summary before the   *)
(* operation is a prefix of the summary after it.                          *)
(***************************************************************************)
C5_SummaryAppended ==
  [][\A p \in PatientEmails, d \in DoctorEmails, m \in ParsedMedicationLists, ok \in BOOLEAN :
       ( /\ GetPatientByEmail(data, p) # 0
         /\ GetDoctorByEmail(data, d) # 0
         /\ m # <<>>
         /\ SendSummary(p, d, m, ok) )
       => IsPrefix(MedicationSummary(data, p), MedicationSummary(data', p))]_vars

(***************************************************************************)
(* Concurrent calls.  db is one object shared by every session of the      *)
(* process and neither book_appointment_with_doctor nor create_appointment *)
(* takes a lock, so the statements of two calls interleave.  A thread      *)
(* steps from statement to statement; each step below is one statement (or *)
(* one run of statements that only read), and                              *)
(* self.data["next_appointment_id"] += 1 is a load followed by a store.    *)
(***************************************************************************)
\* the requests of the concurrent calls
ConcurrentRequests ==
  [patient_email : PatientEmails, patient_name : PatientNames, symptoms : {<<"a">>, <<"b">>},
   parsed : {[ok |-> TRUE, time |-> now + off] : off \in AcceptedOffsets},
   specialization : {Cardiology}, cal : CalendarOutcomes]

At(i, pc) == threads[i].pc = pc

\* thread i moves on with its locals changed as in the record changes
Goto(i, changes) ==
  threads' = [threads EXCEPT ![i] = [k \in DOMAIN @ |->
                                       IF k \in DOMAIN changes THEN changes[k] ELSE @[k]]]

Finish(i, result, id) == Goto(i, [pc |-> "done", result |-> result, id |-> id])

\* the tool is called
CallBook(i, req) ==
  /\ At(i, "idle")
  /\ Goto(i, [pc |-> "check", req |-> Some(req)])
  /\ UNCHANGED <<data, file, now, ticks, issued>>

\* main.py 364-420: the time checks and the three duplicate checks, on the
\* appointments as they are now
CheckAdmission(i) ==
  /\ At(i, "check")
  /\ LET req == threads[i].req[1]
         dup == PatientScheduledAppointments(data.appointments, now, req.patient_email)
         similar == RecentSimilarAppointments(data.appointments, now, req.patient_email,
                                              req.symptoms)
         recent == VeryRecentAppointments(data.appointments, now, req.patient_email)
     IN IF ~req.parsed.ok THEN Finish(i, "ParseError", 0)
        ELSE IF TimeRejection(now, req.parsed.time) # ""
        THEN Finish(i, TimeRejection(now, req.parsed.time), 0)
        ELSE IF dup # <<>> THEN Finish(i, "DuplicateBooking", dup[1].id)
        ELSE IF similar # <<>> THEN Finish(i, "DuplicateSymptom", similar[1].id)
        ELSE IF recent # <<>> THEN Finish(i, "RateLimit", recent[1].id)
        ELSE Goto(i, [pc |-> "register"])
  /\ UNCHANGED <<data, file, now, ticks, issued>>

\* main.py 425: db.add_patient(patient_email, patient_name)
RegisterCaller(i) ==
  /\ At(i, "register")
  /\ LET req == threads[i].req[1]
         r == AddPatient(Store(data, file), now, req.patient_email, req.patient_name,
                         None, None, None)
     IN data' = r.data /\ file' = r.file
  /\ Goto(i, [pc |-> "resolve"])
  /\ UNCHANGED <<now, ticks, issued>>

\* main.py 428-461: the doctor is selected and searched for conflicts
ResolveDoctor(i) ==
  /\ At(i, "resolve")
  /\ LET req == threads[i].req[1]
         doctors == GetDoctorsBySpecialization(data, req.specialization)
     IN IF doctors = <<>> THEN Finish(i, "NoDoctor", 0)
        ELSE LET conflicts == DoctorAppointmentsAtTime(data.appointments, doctors[1].email,
                                                       req.parsed.time)
             IN IF conflicts # <<>> THEN Finish(i, "DoctorConflict", conflicts[1].id)
                ELSE Goto(i, [pc |-> "calendar", doctor |-> doctors[1].email])
  /\ UNCHANGED <<data, file, now, ticks, issued>>

\* main.py 464-477: the calendar event is created (a network call)
CreateCalendarEvent(i) ==
  /\ At(i, "calendar")
  /\ Goto(i, [pc |-> "recheck"])
  /\ UNCHANGED <<data, file, now, ticks, issued>>

\* main.py 483-493: the final duplicate check
FinalCheck(i) ==
  /\ At(i, "recheck")
  /\ LET req == threads[i].req[1]
     IN IF FinalDuplicateCheck(data.appointments, now, req.patient_email) # <<>>
        THEN Finish(i, "RaceCondition", 0)
        ELSE Goto(i, [pc |-> "create"])
  /\ UNCHANGED <<data, file, now, ticks, issued>>

\* database.py 214-235: create_appointment resolves the patient and the
\* doctor and reads the next id
CreateReadId(i) ==
  /\ At(i, "create")
  /\ LET req == threads[i].req[1]
     IN IF \/ GetPatientByEmail(data, req.patient_email) = 0
           \/ GetDoctorByEmail(data, threads[i].doctor) = 0
        THEN Finish(i, "Error", 0)
        ELSE Goto(i, [pc |-> "append", appointment_id |-> data.next_appointment_id])
  /\ UNCHANGED <<data, file, now, ticks, issued>>

\* database.py 237: self.data["appointments"].append(appointment_data)
CreateAppend(i) ==
  /\ At(i, "append")
  /\ LET req == threads[i].req[1]
         appointment_data ==
           [NewAppointment(data, now, req.patient_email, threads[i].doctor, req.symptoms,
                           req.parsed.time, req.cal)
              EXCEPT !.id = threads[i].appointment_id]
     IN data' = [data EXCEPT !.appointments = Append(@, appointment_data)]
  /\ Goto(i, [pc |-> "load_counter"])
  /\ UNCHANGED <<file, now, ticks, issued>>

\* database.py 238, first half: the counter is loaded
CreateLoadCounter(i) ==
  /\ At(i, "load_counter")
  /\ Goto(i, [pc |-> "store_counter", counter |-> data.next_appointment_id])
  /\ UNCHANGED <<data, file, now, ticks, issued>>

\* database.py 238, second half: the counter loaded, plus one, is stored
CreateStoreCounter(i) ==
  /\ At(i, "store_counter")
  /\ data' = [data EXCEPT !.next_appointment_id = threads[i].counter + 1]
  /\ Goto(i, [pc |-> "save"])
  /\ UNCHANGED <<file, now, ticks, issued>>

\* database.py 239-240 and main.py 495-538: the document is saved, the id is
\* returned and the tool reports the booking
CreateSaveAndReturn(i) ==
  /\ At(i, "save")
  /\ file' = Some(data)
  /\ issued' = Append(issued, <<threads[i].appointment_id, threads[i].req[1].patient_email>>)
  /\ Finish(i, "Booked", threads[i].appointment_id)
  /\ UNCHANGED <<data, now, ticks>>

ConcNext ==
  \E i \in Threads :
    \/ \E req \in ConcurrentRequests : CallBook(i, req)
    \/ CheckAdmission(i)
    \/ RegisterCaller(i)
    \/ ResolveDoctor(i)
    \/ CreateCalendarEvent(i)
    \/ FinalCheck(i)
    \/ CreateReadId(i)
    \/ CreateAppend(i)
    \/ CreateLoadCounter(i)
    \/ CreateStoreCounter(i)
    \/ CreateSaveAndReturn(i)

ConcSpec == Init /\ [][ConcNext]_vars

\* thread i has read the id of the appointment it creates
HoldsId(i) ==
  threads[i].pc \in {"append", "load_counter", "store_counter", "save"}
    \/ (threads[i].pc = "done" /\ threads[i].result = "Booked")

(***************************************************************************)
(* C1 (as stated): the appointment ids that two calls of                   *)
(* create_appointment on the same store observe or return are distinct,    *)
(* however their read-counter, append and increment-counter steps          *)
(* interleave.                                                             *)
(***************************************************************************)
C1_DistinctIds ==
  \A i, j \in Threads :
    (i # j /\ HoldsId(i) /\ HoldsId(j))
      => threads[i].appointment_id # threads[j].appointment_id

(***************************************************************************)
(* C7 (as stated): of two concurrent book_appointment_with_doctor calls    *)
(* for the same patient at most one creates an appointment: when both have *)
(* returned, they have not both booked, and the store holds at most one    *)
(* appointment of the patient.                                             *)
(***************************************************************************)
C7_AtMostOneBooking ==
  \A i, j \in Threads :
    ( /\ i # j
      /\ At(i, "done") /\ At(j, "done")
      /\ threads[i].req[1].patient_email = threads[j].req[1].patient_email )
    => /\ ~(threads[i].result = "Booked" /\ threads[j].result = "Booked")
       /\ Cardinality({k \in 1..Len(data.appointments) :
                         data.appointments[k].patient_email
                           = threads[i].req[1].patient_email}) <= 1

(***************************************************************************)
(* Date and time texts put to parse_natural_language_datetime on every day *)
(* of a week, early and late in the day.                                   *)
(***************************************************************************)
ReferenceTimes == {day * SecondsPerDay + secs : day \in 0..6, secs \in {0, 36000, 86399}}

NextDayTexts == {<<"next", " ", DayNames[k]>> : k \in 1..Len(DayNames)}
DateTexts ==
  NextDayTexts
    \cup {<<"Next", " ", "Friday">>, <<" ", "Tomorrow", " ">>, <<"tomorrow">>, <<"today">>,
          <<"day", " ", "after", " ", "tomorrow">>, <<"next", " ", "week">>,
          <<"in", " ", "2", " ", "days">>, <<"in", " ", "1", " ", "week">>,
          <<"sometime", " ", "soonish">>}
GoodTimeTexts == {"noon", "2:30 PM", "12 am"}
TimeTexts == GoodTimeTexts \cup {"25:00", "soonish"}

ParseInit ==
  /\ \E st \in InitialStores : data = st.data /\ file = st.file
  /\ now \in ReferenceTimes
  /\ ticks = 0
  /\ issued = <<>>
  /\ threads = [i \in Threads |-> IdleThread]

\* thread i calls parse_natural_language_datetime(date_input, time_input,
\* datetime.now()) and keeps what it returns
ParseCall(i, date_input, time_input) ==
  LET r == ParseNaturalLanguageDatetime(date_input, time_input, now)
  IN /\ threads' = [threads EXCEPT ![i] =
                      [pc |-> "parsed", date_input |-> date_input, time_input |-> time_input,
                       parse_success |-> r.ok, appointment_datetime |-> r.time,
                       error |-> r.error]]
     /\ UNCHANGED <<data, file, now, ticks, issued>>

ParseNext == \E date_input \in DateTexts, time_input \in TimeTexts : ParseCall(1, date_input, time_input)

ParseSpec == ParseInit /\ [][ParseNext]_vars

\* the calls that have returned
ParsedCalls == {threads[i] : i \in {j \in Threads : threads[j].pc = "parsed"}}
\* the week of a day, weeks running from Monday to Sunday
WeekOf(day) == day \div DaysPerWeek
\* the call asked for "next <weekday k>" (in any case, with any blanks around
\* it) at a time of day that is understood
AskedNext(c, k) ==
  /\ Strip(Lower(c.date_input)) = <<"next", " ", DayNames[k]>>
  /\ c.time_input \in GoodTimeTexts
AskedTomorrow(c) ==
  /\ Strip(Lower(c.date_input)) = <<"tomorrow">>
  /\ c.time_input \in GoodTimeTexts

(***************************************************************************)
(* C19 (as stated): for every reference date and every weekday W, the date *)
(* text "next W" resolves to a date whose weekday is W and that lies in    *)
(* the week after the week of the reference date, never in the same week;  *)
(* "tomorrow" resolves to the reference date plus one day.                 *)
(***************************************************************************)
C19_AsStated ==
  \A c \in ParsedCalls :
    /\ \A k \in 1..Len(DayNames) :
         AskedNext(c, k)
           => /\ c.parse_success
              /\ Weekday(DateOf(c.appointment_datetime)) = k - 1
              /\ WeekOf(DateOf(c.appointment_datetime)) = WeekOf(DateOf(now)) + 1
    /\ AskedTomorrow(c)
         => /\ c.parse_success
            /\ DateOf(c.appointment_datetime) = DateOf(now) + 1

(***************************************************************************)
(* C19 (amended): for every reference date and every weekday W, the date   *)
(* text "next W" resolves to the first date after the reference date whose *)
(* weekday is W: one to seven days later, in the week after the reference  *)
(* date when W is the reference date's weekday or an earlier one, and in   *)
(* the same week when W comes later in the week; "tomorrow" resolves to    *)
(* the reference date plus one day.                                        *)
(***************************************************************************)
C19_NextWeekday ==
  \A c \in ParsedCalls :
    /\ \A k \in 1..Len(DayNames) :
         AskedNext(c, k)
           => LET date == DateOf(c.appointment_datetime)
                  today == DateOf(now)
              IN /\ c.parse_success
                 /\ Weekday(date) = k - 1
                 /\ today < date /\ date <= today + 7
                 /\ \A other \in (today + 1)..(date - 1) : Weekday(other) # k - 1
                 /\ (k - 1 <= Weekday(today)) => WeekOf(date) = WeekOf(today) + 1
                 /\ (k - 1 > Weekday(today)) => WeekOf(date) = WeekOf(today)
    /\ AskedTomorrow(c)
         => /\ c.parse_success
            /\ DateOf(c.appointment_datetime) = DateOf(now) + 1

\* on a Wednesday "Next Friday" has been parsed and gave the Friday of the
\* same week, two days later, while "next monday" gives the Monday after
C19_Witness ==
  /\ Weekday(DateOf(now)) = 2
  /\ \E c \in ParsedCalls :
       /\ c.date_input = <<"Next", " ", "Friday">>
       /\ c.parse_success
       /\ DateOf(c.appointment_datetime) = DateOf(now) + 2
       /\ WeekOf(DateOf(c.appointment_datetime)) = WeekOf(DateOf(now))
  /\ LET r == ParseNaturalLanguageDatetime(<<"next", " ", "monday">>, "noon", now)
     IN /\ r.ok
        /\ DateOf(r.time) = DateOf(now) + 5
        /\ WeekOf(DateOf(r.time)) = WeekOf(DateOf(now)) + 1

(***************************************************************************)
(* Bookings, cancellations and post-visit summaries while the calendar and *)
(* the mail service may fail.  Thread 1 keeps the last call it made.       *)
(***************************************************************************)
NotifyRequests ==
  [patient_email : PatientEmails, patient_name : PatientNames, symptoms : {<<"a">>},
   parsed : {[ok |-> TRUE, time |-> now + off] : off \in AcceptedOffsets},
   specialization : {GeneralMedicine}]

\* what the booking answers to a request under the given outcomes
NotifiedBookingAnswer(req, calendar, email) ==
  BookAndNotify(Store(data, file), now, req.patient_email, req.patient_name, req.symptoms,
                req.parsed, req.specialization, calendar, email)

\* the call that thread 1 has just made
Called(tool, calendar, mails, r) ==
  threads' = [threads EXCEPT ![1] =
                [pc |-> "returned", tool |-> tool, calendar |-> calendar, mails |-> mails,
                 result |-> r.result, id |-> r.id]]

NotifyBook(req, calendar, email) ==
  LET r == NotifiedBookingAnswer(req, calendar, email)
  IN /\ r.result = "Booked" => r.id <= MaxAppointments
     /\ Returns(r)
     /\ issued' = IF r.result = "Booked"
                  THEN Append(issued, <<r.id, req.patient_email>>) ELSE issued
     /\ Called("book", calendar, <<email>>, r)
     /\ UNCHANGED <<now, ticks>>

NotifyCancel(appointment_id, calendar, patient_mail, doctor_mail) ==
  LET r == CancelAndNotify(Store(data, file), appointment_id, calendar, patient_mail, doctor_mail)
  IN /\ Returns(r)
     /\ Called("cancel", calendar, <<patient_mail, doctor_mail>>, [r EXCEPT !.id = appointment_id])
     /\ UNCHANGED <<now, ticks, issued>>

NotifySummary(patient_email, doctor_email, medications, email) ==
  LET r == SummaryAnswer(patient_email, doctor_email, medications, SendEmailViaGoogle(email))
  IN /\ data.next_visit_record_id <= MaxVisitRecords
     /\ Returns(r)
     /\ Called("summary", "ok", <<email>>, r)
     /\ UNCHANGED <<now, ticks, issued>>

NotifyNext ==
  \/ \E req \in NotifyRequests, calendar \in ServiceOutcomes, email \in ServiceOutcomes :
       NotifyBook(req, calendar, email)
  \/ \E id \in AppointmentIds, calendar \in ServiceOutcomes, pm \in ServiceOutcomes,
        dm \in ServiceOutcomes : NotifyCancel(id, calendar, pm, dm)
  \/ \E p \in PatientEmails, d \in DoctorEmails, m \in ParsedMedicationLists,
        email \in ServiceOutcomes : NotifySummary(p, d, m, email)

NotifySpec == Init /\ [][NotifyNext]_vars

(***************************************************************************)
(* C20: a failure of the calendar or of the mail never prevents a record   *)
(* change and never undoes it.  Whatever the outcomes of the calendar call *)
(* and of the mail to the doctor, a booking that passes the checks creates *)
(* the appointment (without an event reference when the calendar failed);  *)
(* whatever the outcomes of the calendar deletion and of the two mails,    *)
(* cancel_appointment deletes a stored appointment; whether or not the     *)
(* mail is sent, send_post_visit_summary for a stored patient and a stored *)
(* doctor stores the visit record.  In each case the change is on file     *)
(* when the tool returns.                                                  *)
(***************************************************************************)
C20_NotificationsNeverUndo ==
  /\ \A req \in NotifyRequests, calendar \in ServiceOutcomes, email \in ServiceOutcomes :
       LET r == NotifiedBookingAnswer(req, calendar, email)
           D == ResolvedDoctor(req)
       IN (PatientClear(req) /\ D # "" /\ DoctorBusyWithin(D, req.parsed.time, 60 * 60) = {})
            => /\ BookedAs(req, r, D)
               /\ r.data.appointments[Len(r.data.appointments)].google_event_id
                    = (IF calendar = "ok" THEN Some("evt") ELSE None)
               /\ r.file = Some(Written(r.data))
  /\ \A a \in Appointments, calendar \in ServiceOutcomes, pm \in ServiceOutcomes,
        dm \in ServiceOutcomes :
       LET r == CancelAndNotify(Store(data, file), a.id, calendar, pm, dm)
           Other(b) == b.id # a.id
       IN /\ r.result = "Cancelled"
          /\ r.data.appointments = SelectSeq(data.appointments, Other)
          /\ Len(r.data.appointments) = Len(data.appointments) - 1
          /\ r.file = Some(Written(r.data))
  /\ \A p \in PatientEmails, d \in DoctorEmails, m \in ParsedMedicationLists,
        email \in ServiceOutcomes :
       LET r == SummaryAnswer(p, d, m, SendEmailViaGoogle(email))
       IN (PatientStored(p) /\ DoctorStored(d))
            => /\ r.id = data.next_visit_record_id
               /\ Len(r.data.post_visit_records) = Len(data.post_visit_records) + 1
               /\ LET rec == r.data.post_visit_records[Len(r.data.post_visit_records)]
                  IN /\ rec.id = r.id
                     /\ rec.patient_email = p
                     /\ rec.doctor_email = d
                     /\ rec.medications = m
               /\ r.result = (IF email = "ok" THEN "Sent" ELSE "EmailFailed")
               /\ r.file = Some(Written(r.data))

\* an appointment booked while the calendar failed is stored without an event
\* reference; the last call cancelled an appointment that had a calendar
\* event while the calendar and both mails failed, and that appointment is
\* gone; a summary whose mail fails would be stored now
C20_Witness ==
  /\ \E a \in Appointments : a.google_event_id = None
  /\ threads[1].pc = "returned"
  /\ threads[1].tool = "cancel"
  /\ threads[1].calendar = "error"
  /\ threads[1].mails = <<"error", "error">>
  /\ threads[1].result = "Cancelled"
  /\ \E k \in 1..Len(issued) : issued[k][1] = threads[1].id
  /\ \A a \in Appointments : a.id # threads[1].id
  /\ \E p \in PatientEmails, d \in DoctorEmails :
       /\ PatientStored(p) /\ DoctorStored(d)
       /\ SummaryAnswer(p, d, <<>>, SendEmailViaGoogle("error")).id = data.next_visit_record_id

(***************************************************************************)
(* Bookings, cancellations and completions while the clock advances more   *)
(* than once: an appointment booked outside the lookahead of its day comes *)
(* inside it as time passes.                                               *)
(***************************************************************************)
\* steps of the clock: half an hour, a day
AdvanceSteps == {1800, 86400}

Advance(step) ==
  /\ ticks <= MaxTicks
  /\ now' = now + step
  /\ ticks' = ticks + 1
  /\ UNCHANGED <<data, file, issued, threads>>

\* bookings at the accepted times, general medicine, with two symptom texts
WindowRequests ==
  [patient_email : PatientEmails, patient_name : PatientNames, symptoms : {<<"a">>, <<"b">>},
   parsed : {[ok |-> TRUE, time |-> now + off] : off \in AcceptedOffsets},
   specialization : {GeneralMedicine}, cal : CalendarOutcomes]

WindowNext ==
  \/ \E step \in AdvanceSteps : Advance(step)
  \/ \E req \in WindowRequests : Book(req)
  \/ \E id \in AppointmentIds : Cancel(id)
  \/ \E id \in AppointmentIds, e \in DoctorEmails : Complete(id, e)

WindowSpec == Init /\ [][WindowNext]_vars

(***************************************************************************)
(* C21: at most one active future appointment per patient within the       *)
(* window.  In every state reached by bookings, cancellations and          *)
(* completions as the clock advances, no patient has two scheduled         *)
(* appointments whose times both lie in the future and less than 7 days    *)
(* from the current time.                                                  *)
(***************************************************************************)
C21_OneActivePerPatient ==
  \A p \in PatientEmails : Cardinality(InLookahead(p)) <= 1

(***************************************************************************)
(* C22: completed is a terminal state.  Once an appointment is completed,  *)
(* no step of the tools (booking, cancel_appointment, a further            *)
(* completion) changes its status or removes it from the store: it is      *)
(* still stored, with status completed, after the step.                    *)
(***************************************************************************)
C22_CompletedIsTerminal ==
  [][\A a \in Appointments :
       a.status = "completed"
         => \E k \in 1..Len(data'.appointments) :
              /\ data'.appointments[k].id = a.id
              /\ data'.appointments[k].status = "completed"]_vars

(***************************************************************************)
(* C23: the completion flag is kept consistent with the status.  In every  *)
(* state reached by calls of the store, update_appointment_completion_     *)
(* status with either flag value among them, each appointment has          *)
(* appointment_completed = true exactly when its status is completed.      *)
(***************************************************************************)
C23_FlagMatchesStatus ==
  \A a \in Appointments : a.appointment_completed <=> (a.status = "completed")

(***************************************************************************)
(* Vocabulary of C24: the admissibility rules a request violates.          *)
(***************************************************************************)
\* the patient of the request has an appointment created in the last 10 minutes
CoolingDown(req) ==
  \E a \in Appointments : a.patient_email = req.patient_email /\ now - a.created_at < 10 * 60

\* the rules in the order of the specification, each with the test that a
\* request violates it and the answers that reject by it
AdmissibilityRules(req) ==
  << [violated |-> ~ValidTime(req),
      answers |-> {"InvalidTimePast", "InvalidTimeTooFar"}],
     [violated |-> InLookahead(req.patient_email) # {},
      answers |-> {"DuplicateBooking"}],
     [violated |-> SimilarRecent(req) # {},
      answers |-> {"DuplicateSymptom"}],
     [violated |-> CoolingDown(req),
      answers |-> {"RateLimit"}],
     [violated |-> /\ ResolvedDoctor(req) # ""
                   /\ DoctorBusyWithin(ResolvedDoctor(req), req.parsed.time, 60 * 60) # {},
      answers |-> {"DoctorConflict"}] >>

RuleAnswers == {"InvalidTimePast", "InvalidTimeTooFar", "DuplicateBooking", "DuplicateSymptom", "RateLimit", "DoctorConflict"}

\* the positions of the rules that a request violates
ViolatedRules(req) ==
  {k \in 1..Len(AdmissibilityRules(req)) : AdmissibilityRules(req)[k].violated}

\* the answers of the earliest rule that a request violates, {} when it
\* violates none
FirstViolated(req) ==
  IF ~ValidTime(req) THEN {"InvalidTimePast", "InvalidTimeTooFar"}
  ELSE IF InLookahead(req.patient_email) # {} THEN {"DuplicateBooking"}
  ELSE IF SimilarRecent(req) # {} THEN {"DuplicateSymptom"}
  ELSE IF CoolingDown(req) THEN {"RateLimit"}
  ELSE IF ResolvedDoctor(req) = "" THEN {}
  ELSE IF DoctorBusyWithin(ResolvedDoctor(req), req.parsed.time, 60 * 60) # {}
  THEN {"DoctorConflict"}
  ELSE {}

(***************************************************************************)
(* C24: the admissibility checks are evaluated in the order time validity, *)
(* duplicate booking, duplicate symptom, rate limit, doctor conflict, and  *)
(* the first failure wins.  A request whose date and time parse and that   *)
(* violates one or more of the rules is answered with the rejection of the *)
(* earliest rule it violates, and a request answered with the rejection of *)
(* a rule violates that rule and none before it.                           *)
(***************************************************************************)
C24_FirstFailureWins ==
  \A req \in BookingRequests :
    req.parsed.ok =>
      LET result == BookingAnswer(req).result
          first == FirstViolated(req)
      IN /\ first # {} => result \in first
         /\ result \in RuleAnswers => result \in first
         /\ result = "InvalidTimePast" => req.parsed.time <= now
         /\ result = "InvalidTimeTooFar" => req.parsed.time > now + 60 * 86400

\* a request that violates the time rule and the duplicate-booking rule is
\* answered by the time rule, and one that violates the four other rules at
\* once is answered by the duplicate-booking rule; a request that violates
\* the rate limit and the doctor conflict only is answered by the rate limit
C24_Witness ==
  /\ \E req \in BookingRequests :
       /\ req.parsed.ok
       /\ {1, 2} \subseteq ViolatedRules(req)
       /\ BookingAnswer(req).result \in FirstViolated(req)
       /\ BookingAnswer(req).result \in {"InvalidTimePast", "InvalidTimeTooFar"}
  /\ \E req \in BookingRequests :
       /\ ViolatedRules(req) = {2, 3, 4, 5}
       /\ BookingAnswer(req).result = "DuplicateBooking"
  /\ \E req \in BookingRequests :
       /\ ViolatedRules(req) = {4, 5}
       /\ BookingAnswer(req).result = "RateLimit"

(***************************************************************************)
(* Doctor resolution: doctors register with a specialization typed on the  *)
(* Register page, and patients book with a specialization chosen by the    *)
(* assistant, which may differ from the registered text in case or be a    *)
(* part of it.                                                             *)
(***************************************************************************)
RegisteredSpecializations == {Cardiology, Lower(Cardiology), GeneralMedicine}
RequestedSpecializations ==
  {Cardiology, Lower(Cardiology), <<"C">>, GeneralMedicine, <<"X", "y">>}

ResolveRequests ==
  [patient_email : PatientEmails, patient_name : PatientNames, symptoms : {<<"a">>},
   parsed : {[ok |-> TRUE, time |-> now + off] : off \in AcceptedOffsets},
   specialization : RequestedSpecializations, cal : CalendarOutcomes]

ResolveNext ==
  \/ \E e \in DoctorEmails, sp \in RegisteredSpecializations : StoreAddDoctor(e, sp)
  \/ \E req \in ResolveRequests : Book(req)

ResolveSpec == Init /\ [][ResolveNext]_vars

(***************************************************************************)
(* Vocabulary of C25.                                                      *)
(***************************************************************************)
Doctors == {data.doctors[i] : i \in 1..Len(data.doctors)}

\* the doctor's specialization contains the requested text, whatever the case
ContainsRequested(doctor, specialization) ==
  \E k \in 0..(Len(doctor.specialization) - Len(specialization)) :
    \A i \in 1..Len(specialization) :
      LowerChar(doctor.specialization[k + i]) = LowerChar(specialization[i])

\* the doctor is a fallback for the request: general medicine, and no match
IsFallback(doctor, specialization) ==
  doctor.specialization = GeneralMedicine /\ ~ContainsRequested(doctor, specialization)

\* the doctor stored under an email
DoctorOf(email) == CHOOSE d \in Doctors : d.email = email

\* name a is not after name b
NameNotAfter(a, b) ==
  \A i, j \in 1..Len(NameOrder) : (NameOrder[i] = a /\ NameOrder[j] = b) => i <= j

(***************************************************************************)
(* C25 (as stated): every doctor whose specialization matches the          *)
(* requested one, in the sense in which the resolution matches (contains   *)
(* it, whatever the case), is ranked before every doctor of the fallback   *)
(* general specialization, and a booking is made with a fallback doctor    *)
(* only when no doctor matches.                                            *)
(***************************************************************************)
C25_AsStated ==
  /\ \A sp \in RequestedSpecializations :
       LET doctors == GetDoctorsBySpecialization(data, sp)
       IN \A i, j \in 1..Len(doctors) :
            (ContainsRequested(doctors[i], sp) /\ IsFallback(doctors[j], sp)) => i < j
  /\ \A req \in ResolveRequests :
       LET r == BookingAnswer(req)
       IN r.result = "Booked"
            => LET a == r.data.appointments[Len(r.data.appointments)]
               IN IsFallback(DoctorOf(a.doctor_email), req.specialization)
                    => \A d \in Doctors : ~ContainsRequested(d, req.specialization)

(***************************************************************************)
(* C25 (amended): the resolution returns the doctors whose specialization  *)
(* contains the requested text (whatever the case) or is General Medicine; *)
(* it ranks every doctor whose specialization is exactly the requested     *)
(* text before every other doctor it returns, and within each of the two   *)
(* groups the doctors are in the order of their names.  The booking is     *)
(* made with the first doctor of this ranking: with the first by name of   *)
(* the doctors whose specialization is exactly the requested text when     *)
(* there is one, and otherwise with the first by name of the others.       *)
(***************************************************************************)
C25_ExactMatchFirst ==
  /\ \A sp \in RequestedSpecializations :
       LET doctors == GetDoctorsBySpecialization(data, sp)
       IN /\ {doctors[i] : i \in 1..Len(doctors)}
               = {d \in Doctors : ContainsRequested(d, sp) \/ d.specialization = GeneralMedicine}
          /\ Len(doctors) <= Cardinality(Doctors)
          /\ \A i, j \in 1..Len(doctors) :
               /\ (doctors[i].specialization = sp /\ doctors[j].specialization # sp) => i < j
               /\ ((doctors[i].specialization = sp <=> doctors[j].specialization = sp) /\ i < j)
                    => NameNotAfter(doctors[i].name, doctors[j].name)
  /\ \A req \in ResolveRequests :
       LET r == BookingAnswer(req)
           exact == {d \in Doctors : d.specialization = req.specialization}
           offered == {d \in Doctors : \/ ContainsRequested(d, req.specialization)
                                        \/ d.specialization = GeneralMedicine}
       IN r.result = "Booked"
            => LET D == DoctorOf(r.data.appointments[Len(r.data.appointments)].doctor_email)
               IN /\ D \in offered
                  /\ exact # {} => D \in exact
                  /\ \A d \in (IF exact # {} THEN exact ELSE offered) :
                       NameNotAfter(D.name, d.name)

\* Baker, whose specialization is exactly the requested one, is ranked before
\* Adams of General Medicine and holds an appointment; and for another
\* request, which Baker's specialization contains without being equal to it,
\* Adams is ranked first
C25_Witness ==
  /\ \E sp \in RequestedSpecializations :
       LET doctors == GetDoctorsBySpecialization(data, sp)
       IN /\ Len(doctors) = 2
          /\ doctors[1].name = "Baker" /\ doctors[1].specialization = sp
          /\ doctors[2].name = "Adams" /\ doctors[2].specialization = GeneralMedicine
          /\ sp # GeneralMedicine
          /\ \E a \in Appointments : a.doctor_email = doctors[1].email
  /\ \E sp \in RequestedSpecializations :
       LET doctors == GetDoctorsBySpecialization(data, sp)
       IN /\ Len(doctors) = 2
          /\ doctors[1].name = "Adams" /\ IsFallback(doctors[1], sp)
          /\ doctors[2].name = "Baker" /\ ContainsRequested(doctors[2], sp)

(***************************************************************************)
(* C26: active-appointment resolution.  For every doctor D,                *)
(* get_doctor_active_appointment returns an appointment of D that is       *)
(* scheduled and not completed and whose time is the earliest of these,    *)
(* and get_doctor_current_patient reports it; when D has no such           *)
(* appointment, get_doctor_current_patient answers 'no active appointment' *)
(* if D has an appointment in the store and 'no appointments' if D has     *)
(* none.                                                                   *)
(***************************************************************************)
C26_ActiveAppointment ==
  \A D \in DoctorEmails :
    LET mine == {a \in Appointments : a.doctor_email = D}
        active == {a \in mine : a.status = "scheduled" /\ ~a.appointment_completed}
        found == GetDoctorActiveAppointment(data, D)
        r == GetDoctorCurrentPatient(Store(data, file), D)
    IN /\ active # {}
            => /\ found # None
               /\ found[1] \in active
               /\ \A a \in active : found[1].appointment_date <= a.appointment_date
               /\ r.result = "CurrentPatient"
               /\ r.id = found[1].id
       /\ (active = {} /\ mine # {})
            => (found = None /\ r.result = "NoActive")
       /\ mine = {}
            => (found = None /\ r.result = "NoAppointments")

\* a doctor has two active appointments, the one booked first being the
\* later one, and the one booked second is reported; the other doctor has no
\* appointment and gets the answer that says so
C26_Witness ==
  \E D \in DoctorEmails, E \in DoctorEmails :
    /\ Len(data.appointments) = 2
    /\ data.appointments[1].doctor_email = D
    /\ data.appointments[2].doctor_email = D
    /\ data.appointments[1].status = "scheduled"
    /\ data.appointments[2].status = "scheduled"
    /\ data.appointments[2].appointment_date < data.appointments[1].appointment_date
    /\ GetDoctorCurrentPatient(Store(data, file), D).id = data.appointments[2].id
    /\ GetDoctorCurrentPatient(Store(data, file), E).result = "NoAppointments"

\* a doctor whose appointments are all completed gets the answer 'no active
\* appointment'
C26_WitnessNoActive ==
  \E D \in DoctorEmails :
    /\ \E a \in Appointments : a.doctor_email = D
    /\ \A a \in Appointments : a.doctor_email = D => a.status = "completed"
    /\ GetDoctorCurrentPatient(Store(data, file), D).result = "NoActive"

(***************************************************************************)
(* C27: in every state reached by interleaved book_appointment_with_doctor *)
(* calls, no two scheduled appointments of the same doctor have times less *)
(* than one hour apart.  Stated here for the appointments of two different *)
(* patients, the case of calls that no check on the patient separates.     *)
(***************************************************************************)
C27_DoctorNeverDoubleBooked ==
  \A i, j \in 1..Len(data.appointments) :
    ( /\ i < j
      /\ data.appointments[i].doctor_email = data.appointments[j].doctor_email
      /\ data.appointments[i].patient_email # data.appointments[j].patient_email
      /\ data.appointments[i].status = "scheduled"
      /\ data.appointments[j].status = "scheduled" )
    => Abs(data.appointments[i].appointment_date - data.appointments[j].appointment_date)
         >= 60 * 60

(***************************************************************************)
(* C28: a booking request that is rejected, for whatever reason, leaves    *)
(* the record store as it was before the request: no patient record is     *)
(* created or modified, no appointment is added and no counter advances.   *)
(***************************************************************************)
C28_RejectionLeavesStore ==
  \A req \in BookingRequests :
    LET r == BookingAnswer(req)
    IN r.result # "Booked" => r.data = data

(***************************************************************************)
(* Bookings made days ahead, on successive days, and the cleanup of a      *)
(* patient's duplicates.                                                   *)
(***************************************************************************)
\* requested times, relative to the time of the request: 10 days and 10
\* hours ahead, 9 days and 9 hours ahead
DaysAheadOffsets == {900000, 810000}
\* a day passes
DaySteps == {86400}

DaysAheadRequests ==
  [patient_email : PatientEmails, patient_name : PatientNames, symptoms : {<<"a">>, <<"b">>},
   parsed : {[ok |-> TRUE, time |-> now + off] : off \in DaysAheadOffsets},
   specialization : {GeneralMedicine}, cal : CalendarOutcomes]

CleanDuplicates(patient_email) ==
  /\ Returns(CleanDuplicateAppointments(Store(data, file), patient_email))
  /\ UNCHANGED <<now, ticks, issued, threads>>

CleanNext ==
  \/ \E step \in DaySteps : Advance(step)
  \/ \E req \in DaysAheadRequests : Book(req)
  \/ \E id \in AppointmentIds, e \in DoctorEmails : Complete(id, e)
  \/ \E p \in PatientEmails : CleanDuplicates(p)

CleanSpec == Init /\ [][CleanNext]_vars

(***************************************************************************)
(* C29: clean_duplicate_appointments(P) never removes all of a patient's   *)
(* appointments.  For every patient P who has a scheduled appointment, a   *)
(* scheduled appointment of P remains in the store after the cleanup.      *)
(***************************************************************************)
C29_OneScheduledRemains ==
  \A p \in PatientEmails :
    (\E a \in Appointments : a.patient_email = p /\ a.status = "scheduled")
      => LET r == CleanDuplicateAppointments(Store(data, file), p)
         IN \E k \in 1..Len(r.data.appointments) :
              /\ r.data.appointments[k].patient_email = p
              /\ r.data.appointments[k].status = "scheduled"

(***************************************************************************)
(* C30: after load_data of an accepted document, each next-id counter is   *)
(* strictly greater than every identifier present in its collection, so    *)
(* that the first record inserted after the load does not receive an       *)
(* identifier that a stored record already has.  Stated of every store     *)
(* that has all its collections and counters.                              *)
(***************************************************************************)
C30_CountersAboveIds ==
  WellFormed(data) =>
    /\ \A k \in 1..Len(data.patients) : data.patients[k].id < data.next_patient_id
    /\ \A k \in 1..Len(data.doctors) : data.doctors[k].id < data.next_doctor_id
    /\ \A k \in 1..Len(data.appointments) :
         data.appointments[k].id < data.next_appointment_id
    /\ \A k \in 1..Len(data.post_visit_records) :
         data.post_visit_records[k].id < data.next_visit_record_id

====
